---- MODULE Spec2Model ----
(***************************************************************************)
(* Bluefin connector (ts/src/bluefin.ts): the token lifecycle of the       *)
(* session (authenticate, refreshAccessToken, isAccessTokenExpired,        *)
(* isRefreshTokenValid, getAccessToken) under overlapping asynchronous     *)
(* callers.                                                                *)
(*                                                                         *)
(* Time.  this.milliseconds () is an integer number of milliseconds; the   *)
(* code divides it by 1000 and compares seconds.  A point in time is the   *)
(* pair <<s, ms>> (whole seconds, 0..999 milliseconds), so that the        *)
(* default refresh lifetime of 2,592,000 s stays inside TLC's integers.    *)
(* Arithmetic on seconds is exact (the rounding of IEEE doubles is not     *)
(* modelled).                                                              *)
(*                                                                         *)
(* Optional values.  A JavaScript value that may be undefined is a         *)
(* sequence of length at most one: NONE is undefined, <<v>> is v.          *)
(***************************************************************************)
EXTENDS Integers, Sequences, FiniteSets, TLC

\* ---- bounds ----
\* number of distinct token pairs the server hands out
NumTokens == 2

\* ---- optional values ----
NONE == <<>>
Some(v) == <<v>>
IsDefined(o) == o # NONE
Val(o) == o[1]

\* safeNumber (obj, key, default) / safeString (obj, key): the stored value,
\* or the default when the key is undefined
safeNumber(o, default) == IF IsDefined(o) THEN Val(o) ELSE default

\* ---- time ----
Time(s, ms) == <<s, ms>>
TimeNorm(s, ms) == <<s + (ms \div 1000), ms % 1000>>
TimeAdd(a, b) == TimeNorm(a[1] + b[1], a[2] + b[2])
TimeSub(a, b) == TimeNorm(a[1] - b[1], a[2] - b[2])
TimeLT(a, b) == a[1] < b[1] \/ (a[1] = b[1] /\ a[2] < b[2])
TimeGE(a, b) == ~TimeLT(a, b)
\* n seconds, n an integer
Seconds(n) == <<n, 0>>
\* lifetime * 0.8 seconds, lifetime an integer number of seconds
Times08(lifetime) == <<(lifetime * 4) \div 5, ((lifetime * 4) % 5) * 200>>

\* the readings the clock takes during a run, and the first of them
Epoch == Time(0, 0)
ClockInstants == { Epoch, Time(239, 999), Time(240, 0) }

\* the lifetimes a server response may carry (seconds; NONE: omitted)
ResponseLifetimes ==
    { [ access |-> NONE, refresh |-> NONE ], [ access |-> Some(200), refresh |-> Some(300) ] }

\* ---- program constants ----
DefaultAccessValidFor == 300
DefaultRefreshValidFor == 2592000
RefreshSafetyBuffer == 60

\* the activations of async methods that may be pending at the same time
Calls == { 1, 2 }
TokenIds == 1 .. NumTokens

\* ---- strings and bytes ----
\* A string is the sequence of its character codes (all characters here are
\* below U+0800), a Uint8Array the sequence of its bytes (0 .. 255).

\* the private key of the unit tests, as configured: '0x3427d1...67a1'
TEST_PRIVATE_KEY ==
    << 48, 120, 51, 52, 50, 55, 100, 49, 57, 100, 99, 102, 53, 55, 56, 49,
       102, 48, 56, 55, 52, 99, 51, 54, 99, 55, 56, 97, 101, 99, 50, 50,
       99, 48, 51, 97, 99, 100, 97, 52, 51, 53, 100, 54, 57, 101, 102, 99,
       98, 102, 50, 52, 57, 101, 56, 56, 50, 49, 55, 57, 51, 53, 54, 55,
       97, 49 >>

\* the same key written without the '0x' prefix
TEST_PRIVATE_KEY_BARE == SubSeq(TEST_PRIVATE_KEY, 3, Len(TEST_PRIVATE_KEY))

\* the key of another account: '0x9d61b1...7f60'
OTHER_PRIVATE_KEY ==
    << 48, 120, 57, 100, 54, 49, 98, 49, 57, 100, 101, 102, 102, 100, 53,
       97, 54, 48, 98, 97, 56, 52, 52, 97, 102, 52, 57, 50, 101, 99, 50,
       99, 99, 52, 52, 52, 52, 57, 99, 53, 54, 57, 55, 98, 51, 50, 54, 57,
       49, 57, 55, 48, 51, 98, 97, 99, 48, 51, 49, 99, 97, 101, 55, 102,
       54, 48 >>

\* the wallet address of the unit tests' payloads: '0xabc'
TEST_WALLET_ADDRESS ==
    << 48, 120, 97, 98, 99 >>

VARIABLES
    options,      \* this.options: the five token fields
    now,          \* the clock read by this.milliseconds ()
    credentials,  \* walletAddress and privateKey are configured
    calls,        \* per call: position and locals of the async function
    probe,        \* results of the last isAccessTokenExpired / isRefreshTokenValid pair
    walletAddress, \* this.walletAddress
    privateKey,   \* this.privateKey: a hex string
    data,         \* argument of the signing primitive called last
    result,       \* the signing primitive calls made last, newest first
    trade         \* the private operation in progress and the request it sent

\* the fields of the client outside the token lifecycle
signer == <<walletAddress, privateKey, data, result, trade>>

vars == <<options, now, credentials, calls, probe, walletAddress, privateKey, data, result, trade>>

EmptyOptions ==
    [ accessToken |-> NONE,
      refreshToken |-> NONE,
      tokenSetAtSeconds |-> NONE,
      accessTokenValidForSeconds |-> NONE,
      refreshTokenValidForSeconds |-> NONE ]

IdleCall ==
    [ pc |-> "idle",          \* idle, awaitAuth, awaitRefresh, resume, returned, raised
      op |-> "none",          \* the method the caller invoked
      entry |-> "none",       \* the branch getAccessToken took
      signedAt |-> NONE,      \* authenticate's local `now`
      sentRefresh |-> NONE,   \* refreshToken placed in the refresh request
      nAuth |-> 0,            \* authenticate () invocations made by this call
      nRefresh |-> 0,         \* refreshAccessToken () invocations made by this call
      renewed |-> NONE,       \* access token this call stored
      overwritten |-> FALSE,  \* another call stored tokens before this one returned
      response |-> NONE,      \* the response body that made this call raise
      failed |-> "none",      \* none, credentials, transport, noAccessToken
      err |-> "none",         \* class of the error raised
      ret |-> NONE ]          \* value getAccessToken returned

Active(c) == calls[c].pc \in { "awaitAuth", "awaitRefresh", "resume" }
Finished(c) == calls[c].pc \in { "returned", "raised" }

\* a settled promise hands its outcome to the caller and the activation is gone
Settled == [ d \in Calls |-> IF Finished(d) THEN IdleCall ELSE calls[d] ]

\* ---- isAccessTokenExpired / isRefreshTokenValid ----

\* variant: the boundary taken as exclusive (`>` for `>=`)
isAccessTokenExpired_strict(opts, clock) ==
    LET token == opts.accessToken
        tokenSetAt == opts.tokenSetAtSeconds
    IN  IF token = NONE \/ tokenSetAt = NONE
        THEN TRUE
        ELSE LET lifetime == safeNumber(opts.accessTokenValidForSeconds, DefaultAccessValidFor)
             IN  TimeLT(TimeAdd(Val(tokenSetAt), Times08(lifetime)), clock)

isAccessTokenExpired(opts, clock) ==
    LET token == opts.accessToken
        tokenSetAt == opts.tokenSetAtSeconds
    IN  IF token = NONE \/ tokenSetAt = NONE
        THEN TRUE
        ELSE LET lifetime == safeNumber(opts.accessTokenValidForSeconds, DefaultAccessValidFor)
             IN  TimeGE(clock, TimeAdd(Val(tokenSetAt), Times08(lifetime)))

\* variant: the boundary taken as inclusive (`<=` for `<`)
isRefreshTokenValid_inclusive(opts, clock) ==
    LET refreshToken == opts.refreshToken
        tokenSetAt == opts.tokenSetAtSeconds
    IN  IF refreshToken = NONE \/ tokenSetAt = NONE
        THEN FALSE
        ELSE LET lifetime == safeNumber(opts.refreshTokenValidForSeconds, DefaultRefreshValidFor)
             IN  ~TimeLT(TimeAdd(Val(tokenSetAt), Seconds(lifetime - RefreshSafetyBuffer)), clock)

\* variant: the 60 second safety buffer left out
isRefreshTokenValid_noBuffer(opts, clock) ==
    LET refreshToken == opts.refreshToken
        tokenSetAt == opts.tokenSetAtSeconds
    IN  IF refreshToken = NONE \/ tokenSetAt = NONE
        THEN FALSE
        ELSE LET lifetime == safeNumber(opts.refreshTokenValidForSeconds, DefaultRefreshValidFor)
             IN  TimeLT(clock, TimeAdd(Val(tokenSetAt), Seconds(lifetime)))

isRefreshTokenValid(opts, clock) ==
    LET refreshToken == opts.refreshToken
        tokenSetAt == opts.tokenSetAtSeconds
    IN  IF refreshToken = NONE \/ tokenSetAt = NONE
        THEN FALSE
        ELSE LET lifetime == safeNumber(opts.refreshTokenValidForSeconds, DefaultRefreshValidFor)
             IN  TimeLT(clock, TimeAdd(Val(tokenSetAt), Seconds(lifetime - RefreshSafetyBuffer)))

Init ==
    /\ options = EmptyOptions
    /\ now = Epoch
    /\ credentials \in BOOLEAN
    /\ calls = [c \in Calls |-> IdleCall]
    /\ probe = NONE
    /\ walletAddress = IF credentials THEN Some(TEST_WALLET_ADDRESS) ELSE NONE
    /\ privateKey = IF credentials THEN Some(TEST_PRIVATE_KEY) ELSE NONE
    /\ data = NONE
    /\ result = <<>>
    /\ trade = NONE


\* ---- the server ----

\* the bodies a login or refresh response may carry: the tokens of pair id, or
\* only some of them, and the lifetimes
ResponseBodies ==
    { [ accessToken |-> IF p.access THEN Some(p.id) ELSE NONE,
        refreshToken |-> IF p.refresh THEN Some(p.id) ELSE NONE,
        accessTokenValidForSeconds |-> l.access,
        refreshTokenValidForSeconds |-> l.refresh ] :
          p \in [ id : TokenIds, access : BOOLEAN, refresh : BOOLEAN ],
          l \in ResponseLifetimes }

\* ---- call bookkeeping ----

\* a new activation takes the lowest free slot
CanBegin(c) ==
    /\ ~Active(c)
    /\ \A d \in Calls : d < c => Active(d)

\* call c moves on to the record rec
Step(c, rec) == calls' = [ Settled EXCEPT ![c] = rec ]

\* call c stored tokens and moves on to rec; a call that stored before and has
\* not returned yet now sees the tokens of c
StepStore(c, rec) ==
    calls' = [ d \in Calls |->
                 IF d = c THEN rec
                 ELSE IF calls[d].pc = "resume"
                      THEN [ calls[d] EXCEPT !.overwritten = TRUE ]
                      ELSE Settled[d] ]

\* ---- authenticate (), up to its await ----
authenticateStart(call) ==
    IF ~credentials
    THEN [ call EXCEPT !.pc = "raised", !.nAuth = @ + 1,
                       !.failed = "credentials", !.err = "AuthenticationError" ]
    ELSE [ call EXCEPT !.pc = "awaitAuth", !.nAuth = @ + 1,
                       !.signedAt = Some(now) ]

\* ---- refreshAccessToken (), up to its await ----
refreshAccessTokenStart(call) ==
    LET refreshToken == options.refreshToken
        invoked == [ call EXCEPT !.nRefresh = @ + 1 ]
    IN  IF refreshToken = NONE
        THEN authenticateStart(invoked)
        ELSE [ invoked EXCEPT !.pc = "awaitRefresh", !.sentRefresh = refreshToken ]

\* variant: the absent case routed through refreshAccessToken ()
getAccessTokenStart_refreshFirst(call) ==
    LET token == options.accessToken
    IN  IF token = NONE
        THEN refreshAccessTokenStart([ call EXCEPT !.entry = "absent" ])
        ELSE IF isAccessTokenExpired(options, now)
             THEN IF isRefreshTokenValid(options, now)
                  THEN refreshAccessTokenStart([ call EXCEPT !.entry = "refresh" ])
                  ELSE authenticateStart([ call EXCEPT !.entry = "reauth" ])
             ELSE [ call EXCEPT !.entry = "cached", !.pc = "returned",
                                !.ret = options.accessToken ]

\* variant: an expired token always renewed by a full login
getAccessTokenStart_noRefresh(call) ==
    LET token == options.accessToken
    IN  IF token = NONE
        THEN authenticateStart([ call EXCEPT !.entry = "absent" ])
        ELSE IF isAccessTokenExpired(options, now)
             THEN authenticateStart([ call EXCEPT !.entry = "reauth" ])
             ELSE [ call EXCEPT !.entry = "cached", !.pc = "returned",
                                !.ret = options.accessToken ]

\* variant: the expiry test left out, every call with a usable refresh token refreshes
getAccessTokenStart_noExpiryCheck(call) ==
    LET token == options.accessToken
    IN  IF token = NONE
        THEN authenticateStart([ call EXCEPT !.entry = "absent" ])
        ELSE IF isRefreshTokenValid(options, now)
             THEN refreshAccessTokenStart([ call EXCEPT !.entry = "refresh" ])
             ELSE IF isAccessTokenExpired(options, now)
                  THEN authenticateStart([ call EXCEPT !.entry = "reauth" ])
                  ELSE [ call EXCEPT !.entry = "cached", !.pc = "returned",
                                     !.ret = options.accessToken ]

\* ---- getAccessToken (), up to its first await or its return ----
getAccessTokenStart(call) ==
    LET token == options.accessToken
    IN  IF token = NONE
        THEN authenticateStart([ call EXCEPT !.entry = "absent" ])
        ELSE IF isAccessTokenExpired(options, now)
             THEN IF isRefreshTokenValid(options, now)
                  THEN refreshAccessTokenStart([ call EXCEPT !.entry = "refresh" ])
                  ELSE authenticateStart([ call EXCEPT !.entry = "reauth" ])
             ELSE [ call EXCEPT !.entry = "cached", !.pc = "returned",
                                !.ret = options.accessToken ]

\* ---- the stores made after a response that carries an access token ----
\* variant: a field the response omits keeps the value stored before
authenticateStore_merge(call, body) ==
    [ accessToken |-> body.accessToken,
      refreshToken |-> IF body.refreshToken = NONE THEN options.refreshToken
                       ELSE body.refreshToken,
      tokenSetAtSeconds |-> call.signedAt,
      accessTokenValidForSeconds |->
          Some(safeNumber(body.accessTokenValidForSeconds, DefaultAccessValidFor)),
      refreshTokenValidForSeconds |->
          Some(safeNumber(body.refreshTokenValidForSeconds, DefaultRefreshValidFor)) ]

\* variant: the issue time read when the response arrives
authenticateStore_responseTime(call, body) ==
    [ accessToken |-> body.accessToken,
      refreshToken |-> body.refreshToken,
      tokenSetAtSeconds |-> Some(now),
      accessTokenValidForSeconds |->
          Some(safeNumber(body.accessTokenValidForSeconds, DefaultAccessValidFor)),
      refreshTokenValidForSeconds |->
          Some(safeNumber(body.refreshTokenValidForSeconds, DefaultRefreshValidFor)) ]

authenticateStore(call, body) ==
    [ accessToken |-> body.accessToken,
      refreshToken |-> body.refreshToken,
      tokenSetAtSeconds |-> call.signedAt,
      accessTokenValidForSeconds |->
          Some(safeNumber(body.accessTokenValidForSeconds, DefaultAccessValidFor)),
      refreshTokenValidForSeconds |->
          Some(safeNumber(body.refreshTokenValidForSeconds, DefaultRefreshValidFor)) ]

\* variant: a refresh token the response omits keeps the one stored before
refreshStore_merge(clock, body) ==
    [ accessToken |-> body.accessToken,
      refreshToken |-> IF body.refreshToken = NONE THEN options.refreshToken
                       ELSE body.refreshToken,
      tokenSetAtSeconds |-> Some(clock),
      accessTokenValidForSeconds |->
          Some(safeNumber(body.accessTokenValidForSeconds, DefaultAccessValidFor)),
      refreshTokenValidForSeconds |->
          Some(safeNumber(body.refreshTokenValidForSeconds, DefaultRefreshValidFor)) ]

refreshStore(clock, body) ==
    [ accessToken |-> body.accessToken,
      refreshToken |-> body.refreshToken,
      tokenSetAtSeconds |-> Some(clock),
      accessTokenValidForSeconds |->
          Some(safeNumber(body.accessTokenValidForSeconds, DefaultAccessValidFor)),
      refreshTokenValidForSeconds |->
          Some(safeNumber(body.refreshTokenValidForSeconds, DefaultRefreshValidFor)) ]

\* what a call does once its authenticate () / refreshAccessToken () returned
AfterRenewal(call) ==
    IF call.op = "getAccessToken" THEN "resume" ELSE "returned"

\* ---- actions ----

Tick(t) ==
    /\ TimeLT(now, t)
    /\ now' = t
    /\ calls' = Settled
    /\ UNCHANGED <<options, credentials, probe, signer>>

CallGetAccessToken(c) ==
    /\ CanBegin(c)
    /\ Step(c, getAccessTokenStart([ IdleCall EXCEPT !.op = "getAccessToken" ]))
    /\ UNCHANGED <<options, now, credentials, probe, signer>>

CallAuthenticate(c) ==
    /\ CanBegin(c)
    /\ Step(c, authenticateStart([ IdleCall EXCEPT !.op = "authenticate" ]))
    /\ UNCHANGED <<options, now, credentials, probe, signer>>

CallRefreshAccessToken(c) ==
    /\ CanBegin(c)
    /\ Step(c, refreshAccessTokenStart([ IdleCall EXCEPT !.op = "refreshAccessToken" ]))
    /\ UNCHANGED <<options, now, credentials, probe, signer>>

\* variant: the response stored before the access token is looked at
AuthenticateResponse_storeFirst(c, body) ==
    /\ calls[c].pc = "awaitAuth"
    /\ options' = authenticateStore(calls[c], body)
    /\ IF body.accessToken = NONE
       THEN Step(c, [ calls[c] EXCEPT !.pc = "raised", !.response = Some(body),
                                      !.failed = "noAccessToken", !.signedAt = NONE,
                                      !.err = "AuthenticationError" ])
       ELSE StepStore(c, [ calls[c] EXCEPT !.pc = AfterRenewal(calls[c]),
                                           !.renewed = body.accessToken,
                                           !.signedAt = NONE ])
    /\ UNCHANGED <<now, credentials, probe, signer>>

\* variant: the test for a missing access token left out
AuthenticateResponse_noCheck(c, body) ==
    /\ calls[c].pc = "awaitAuth"
    /\ options' = authenticateStore(calls[c], body)
    /\ StepStore(c, [ calls[c] EXCEPT !.pc = AfterRenewal(calls[c]),
                                      !.renewed = body.accessToken,
                                      !.signedAt = NONE ])
    /\ UNCHANGED <<now, credentials, probe, signer>>

\* the login request of call c is answered with body
AuthenticateResponse(c, body) ==
    /\ calls[c].pc = "awaitAuth"
    /\ IF body.accessToken = NONE
       THEN /\ Step(c, [ calls[c] EXCEPT !.pc = "raised", !.response = Some(body),
                                         !.failed = "noAccessToken", !.signedAt = NONE, !.sentRefresh = NONE,
                                         !.err = "AuthenticationError" ])
            /\ UNCHANGED options
       ELSE /\ options' = authenticateStore(calls[c], body)
            /\ StepStore(c, [ calls[c] EXCEPT !.pc = AfterRenewal(calls[c]),
                                              !.renewed = body.accessToken,
                                              !.signedAt = NONE ])
    /\ UNCHANGED <<now, credentials, probe, signer>>

\* variant: a failed login sent once more before the error is raised
AuthenticateFailure_retry(c) ==
    /\ calls[c].pc = "awaitAuth"
    /\ IF calls[c].nAuth < 2
       THEN Step(c, [ calls[c] EXCEPT !.nAuth = @ + 1 ])
       ELSE Step(c, [ calls[c] EXCEPT !.pc = "raised", !.failed = "transport",
                                      !.signedAt = NONE, !.sentRefresh = NONE,
                                      !.err = "TransportError" ])
    /\ UNCHANGED <<options, now, credentials, probe, signer>>

\* the login request of call c fails in the transport
AuthenticateFailure(c) ==
    /\ calls[c].pc = "awaitAuth"
    /\ Step(c, [ calls[c] EXCEPT !.pc = "raised", !.failed = "transport", !.signedAt = NONE, !.sentRefresh = NONE,
                                 !.err = "TransportError" ])
    /\ UNCHANGED <<options, now, credentials, probe, signer>>

\* variant: the response stored before the access token is looked at
RefreshResponse_storeFirst(c, body) ==
    /\ calls[c].pc = "awaitRefresh"
    /\ options' = refreshStore(now, body)
    /\ IF body.accessToken = NONE
       THEN Step(c, [ calls[c] EXCEPT !.pc = "raised", !.response = Some(body),
                                      !.failed = "noAccessToken", !.sentRefresh = NONE,
                                      !.err = "AuthenticationError" ])
       ELSE StepStore(c, [ calls[c] EXCEPT !.pc = AfterRenewal(calls[c]),
                                           !.renewed = body.accessToken,
                                           !.sentRefresh = NONE ])
    /\ UNCHANGED <<now, credentials, probe, signer>>

\* the refresh request of call c is answered with body
RefreshResponse(c, body) ==
    /\ calls[c].pc = "awaitRefresh"
    /\ IF body.accessToken = NONE
       THEN /\ Step(c, [ calls[c] EXCEPT !.pc = "raised", !.response = Some(body),
                                         !.failed = "noAccessToken", !.signedAt = NONE, !.sentRefresh = NONE,
                                         !.err = "AuthenticationError" ])
            /\ UNCHANGED options
       ELSE /\ options' = refreshStore(now, body)
            /\ StepStore(c, [ calls[c] EXCEPT !.pc = AfterRenewal(calls[c]),
                                              !.renewed = body.accessToken,
                                              !.sentRefresh = NONE ])
    /\ UNCHANGED <<now, credentials, probe, signer>>

\* the refresh request of call c fails in the transport
RefreshFailure(c) ==
    /\ calls[c].pc = "awaitRefresh"
    /\ Step(c, [ calls[c] EXCEPT !.pc = "raised", !.failed = "transport", !.signedAt = NONE, !.sentRefresh = NONE,
                                 !.err = "TransportError" ])
    /\ UNCHANGED <<options, now, credentials, probe, signer>>

\* variant: the return held back while another call is still renewing
GetAccessTokenReturn_lock(c) ==
    /\ calls[c].pc = "resume"
    /\ \A d \in Calls \ { c } : ~Active(d)
    /\ Step(c, [ calls[c] EXCEPT !.pc = "returned", !.ret = options.accessToken ])
    /\ UNCHANGED <<options, now, credentials, probe, signer>>

\* getAccessToken resumes after its await and returns this.options['accessToken']
GetAccessTokenReturn(c) ==
    /\ calls[c].pc = "resume"
    /\ Step(c, [ calls[c] EXCEPT !.pc = "returned", !.ret = options.accessToken ])
    /\ UNCHANGED <<options, now, credentials, probe, signer>>

Next ==
    \/ \E t \in ClockInstants : Tick(t)
    \/ \E c \in Calls : CallGetAccessToken(c)
    \/ \E c \in Calls : CallAuthenticate(c)
    \/ \E c \in Calls : CallRefreshAccessToken(c)
    \/ \E c \in Calls : \E body \in ResponseBodies : AuthenticateResponse(c, body)
    \/ \E c \in Calls : AuthenticateFailure(c)
    \/ \E c \in Calls : \E body \in ResponseBodies : RefreshResponse(c, body)
    \/ \E c \in Calls : RefreshFailure(c)
    \/ \E c \in Calls : GetAccessTokenReturn(c)

Spec == Init /\ [][Next]_vars

\* ---- the same program with its scheduling ----
\* Every login and refresh request is answered or fails, and the event loop
\* resumes a call whose awaited promise has settled.  The answers are a token
\* pair with the default lifetimes and a body without tokens.

LiveBodies ==
    { [ accessToken |-> Some(1), refreshToken |-> Some(1),
        accessTokenValidForSeconds |-> NONE,
        refreshTokenValidForSeconds |-> NONE ],
      [ accessToken |-> NONE, refreshToken |-> NONE,
        accessTokenValidForSeconds |-> NONE,
        refreshTokenValidForSeconds |-> NONE ] }

NextLive ==
    \/ \E t \in ClockInstants : Tick(t)
    \/ \E c \in Calls : CallGetAccessToken(c)
    \/ \E c \in Calls : CallAuthenticate(c)
    \/ \E c \in Calls : CallRefreshAccessToken(c)
    \/ \E c \in Calls : \E body \in LiveBodies : AuthenticateResponse(c, body)
    \/ \E c \in Calls : AuthenticateFailure(c)
    \/ \E c \in Calls : \E body \in LiveBodies : RefreshResponse(c, body)
    \/ \E c \in Calls : RefreshFailure(c)
    \/ \E c \in Calls : GetAccessTokenReturn(c)

Fairness ==
    \A c \in Calls :
        /\ WF_vars(\/ \E body \in LiveBodies : AuthenticateResponse(c, body)
                   \/ AuthenticateFailure(c))
        /\ WF_vars(\/ \E body \in LiveBodies : RefreshResponse(c, body)
                   \/ RefreshFailure(c))
        /\ WF_vars(GetAccessTokenReturn(c))

SpecLive == Init /\ [][NextLive]_vars /\ Fairness

\* ---- the two predicates on their own ----
\* A client may be constructed with any token fields in its options (the tests
\* set them by hand); the predicates are then called as the clock advances.

ProbeBases == { Epoch, Time(100, 250) }
ProbeElapsed ==
    { Time(0, 0), Time(0, 799), Time(0, 800), Time(0, 999), Time(1, 0), Time(1, 1),
      Time(239, 999), Time(240, 0), Time(240, 1), Time(300, 0),
      Time(2591939, 999), Time(2591940, 0), Time(2591940, 1), Time(2592000, 0) }
ProbeInstants == { TimeAdd(b, e) : b \in ProbeBases, e \in ProbeElapsed }
ProbeOptions ==
    [ accessToken : { NONE, Some(1) },
      refreshToken : { NONE, Some(1) },
      tokenSetAtSeconds : { NONE } \cup { Some(b) : b \in ProbeBases },
      accessTokenValidForSeconds : { NONE, Some(300), Some(1) },
      refreshTokenValidForSeconds : { NONE, Some(2592000), Some(61) } ]

InitProbe ==
    /\ options \in ProbeOptions
    /\ now \in ProbeBases
    /\ credentials = TRUE
    /\ calls = [c \in Calls |-> IdleCall]
    /\ probe = NONE
    /\ walletAddress = IF credentials THEN Some(TEST_WALLET_ADDRESS) ELSE NONE
    /\ privateKey = IF credentials THEN Some(TEST_PRIVATE_KEY) ELSE NONE
    /\ data = NONE
    /\ result = <<>>
    /\ trade = NONE

ProbeTick(t) ==
    /\ TimeLT(now, t)
    /\ now' = t
    /\ probe' = NONE
    /\ UNCHANGED <<options, credentials, calls, signer>>

ProbeTokenState ==
    /\ probe = NONE
    /\ probe' = Some([ expired |-> isAccessTokenExpired(options, now),
                       refreshValid |-> isRefreshTokenValid(options, now) ])
    /\ UNCHANGED <<options, now, credentials, calls, signer>>

NextProbe ==
    \/ \E t \in ProbeInstants : ProbeTick(t)
    \/ ProbeTokenState

SpecProbe == InitProbe /\ [][NextProbe]_vars

TypeOK ==
    /\ now[1] >= 0 /\ now[2] \in 0 .. 999
    /\ credentials \in BOOLEAN
    /\ \A c \in Calls : calls[c].pc \in { "idle", "awaitAuth", "awaitRefresh", "resume", "returned", "raised" }


\* ---- Sui signing primitives: bcsSerializeBytes ----

\* concatBytes (a, b)
concatBytes(a, b) == a \o b

\* variant: the loop test taken as `>` for `>=`
RECURSIVE lenBytes_strict(_)
lenBytes_strict(len) ==
    IF len > 128
    THEN <<(len % 128) + 128>> \o lenBytes_strict(len \div 128)
    ELSE <<len % 256>>

\* the while loop: lenBytes.push ((len & 0x7f) | 0x80); len >>>= 7; and the
\* final lenBytes.push (len).  data.length is below 2^31, so the 32-bit
\* operators act as on naturals.
RECURSIVE lenBytes(_)
lenBytes(len) ==
    IF len >= 128
    THEN <<(len % 128) + 128>> \o lenBytes(len \div 128)
    ELSE <<len>>

\* variant of bcsSerializeBytes over the variant loop
bcsSerializeBytes_strict(bytes) == concatBytes(lenBytes_strict(Len(bytes)), bytes)

bcsSerializeBytes(bytes) == concatBytes(lenBytes(Len(bytes)), bytes)

\* ---- bcsSerializeBytes on its own ----
\* the lengths and contents of the byte arrays handed to it
BcsLengths == { 0, 1, 2, 3, 64, 127, 128, 129, 255, 256, 300, 16383, 16384 }
BcsFills == { 0, 65, 127, 128, 170, 255 }
BcsInputs == { [ i \in 1 .. n |-> (fill + 3 * (i - 1)) % 256 ] : n \in BcsLengths, fill \in BcsFills }

InitBcs ==
    /\ options = EmptyOptions
    /\ now = Epoch
    /\ credentials = TRUE
    /\ calls = [c \in Calls |-> IdleCall]
    /\ probe = NONE
    /\ walletAddress = Some(TEST_WALLET_ADDRESS)
    /\ privateKey = Some(TEST_PRIVATE_KEY)
    /\ data \in { Some(d) : d \in BcsInputs }
    /\ result = <<>>
    /\ trade = NONE

BcsSerializeBytes ==
    /\ result = <<>>
    /\ result' = << bcsSerializeBytes(Val(data)) >>
    /\ UNCHANGED <<options, now, credentials, calls, probe, walletAddress, privateKey, data, trade>>

NextBcs == BcsSerializeBytes

SpecBcs == InitBcs /\ [][NextBcs]_vars

\* ---- Sui signing primitives: the message ----

\* the pieces of a string or byte array put together in order
RECURSIVE Join(_)
Join(pieces) ==
    IF Len(pieces) = 0 THEN <<>>
    ELSE IF Len(pieces) = 1 THEN pieces[1]
    ELSE LET half == Len(pieces) \div 2
         IN  Join(SubSeq(pieces, 1, half)) \o Join(SubSeq(pieces, half + 1, Len(pieces)))

\* utf8ToBytes (str): the UTF-8 encoding, one byte below U+0080, two below U+0800
utf8ToBytes(str) ==
    Join([ i \in 1 .. Len(str) |->
             LET c == str[i]
             IN  IF c < 128 THEN <<c>> ELSE <<192 + (c \div 64), 128 + (c % 64)>> ])

\* the values a property of a payload object may hold
String(str) == [ type |-> "string", value |-> str ]
Boolean(b) == [ type |-> "boolean", value |-> b ]
Number(n) == [ type |-> "number", value |-> n ]
Object(properties) == [ type |-> "object", value |-> properties ]
Undefined == [ type |-> "undefined", value |-> <<>> ]

\* a property: its key and its value; an object literal lists them in order
Property(key, value) == [ key |-> key, value |-> value ]

\* a lower-case hexadecimal digit as a character
HexChar(d) == IF d < 10 THEN 48 + d ELSE 87 + d

\* JSON.stringify: a character inside a quoted string
QuoteJSONChar(c) ==
    IF c = 34 THEN <<92, 34>>
    ELSE IF c = 92 THEN <<92, 92>>
    ELSE IF c = 8 THEN <<92, 98>>
    ELSE IF c = 9 THEN <<92, 116>>
    ELSE IF c = 10 THEN <<92, 110>>
    ELSE IF c = 12 THEN <<92, 102>>
    ELSE IF c = 13 THEN <<92, 114>>
    ELSE IF c < 32 THEN <<92, 117, 48, 48, HexChar(c \div 16), HexChar(c % 16)>>
    ELSE <<c>>

QuoteJSONChars(str) == Join([ i \in 1 .. Len(str) |-> QuoteJSONChar(str[i]) ])

\* JSON.stringify: a string value or a key
QuoteJSONString(str) == <<34>> \o QuoteJSONChars(str) \o <<34>>

\* JSON.stringify: a non-negative integer
RECURSIVE NumberToString(_)
NumberToString(n) ==
    IF n < 10 THEN <<48 + n>> ELSE NumberToString(n \div 10) \o <<48 + (n % 10)>>

\* the indentation of nesting level `level`, gap two spaces
RECURSIVE Indent(_)
Indent(level) == IF level = 0 THEN <<>> ELSE <<32, 32>> \o Indent(level - 1)

\* JSON.stringify (value, null, 2): a property whose value is undefined is
\* left out; the others are written in order, one per line, separated by ",\n"
RECURSIVE SerializeJSONProperty(_, _), SerializeJSONMembers(_, _, _), SerializeJSONObject(_, _)
SerializeJSONProperty(value, level) ==
    IF value.type = "string" THEN QuoteJSONString(value.value)
    ELSE IF value.type = "boolean"
         THEN IF value.value THEN <<116, 114, 117, 101>> ELSE <<102, 97, 108, 115, 101>>
    ELSE IF value.type = "number" THEN NumberToString(value.value)
    ELSE SerializeJSONObject(value.value, level)

SerializeJSONMembers(properties, level, first) ==
    IF properties = <<>> THEN <<>>
    ELSE LET p == Head(properties)
         IN  IF p.value.type = "undefined"
             THEN SerializeJSONMembers(Tail(properties), level, first)
             ELSE ( IF first THEN <<>> ELSE <<44>> )
                  \o <<10>> \o Indent(level) \o QuoteJSONString(p.key) \o <<58, 32>>
                  \o SerializeJSONProperty(p.value, level)
                  \o SerializeJSONMembers(Tail(properties), level, FALSE)

SerializeJSONObject(properties, level) ==
    LET members == SerializeJSONMembers(properties, level + 1, TRUE)
    IN  IF members = <<>> THEN <<123, 125>>
        ELSE <<123>> \o members \o <<10>> \o Indent(level) \o <<125>>

JSON_stringify(payload) == SerializeJSONObject(payload, 0)

\* ---- Sui signing primitives: the signature ----

\* privateKeyHex.replace ('0x', ''): the first occurrence of '0x' removed
Remove0x(str) ==
    LET found == { i \in 1 .. Len(str) - 1 : str[i] = 48 /\ str[i + 1] = 120 }
    IN  IF found = {} THEN str
        ELSE LET first == CHOOSE i \in found : \A j \in found : i <= j
             IN  SubSeq(str, 1, first - 1) \o SubSeq(str, first + 2, Len(str))

\* the value of a hexadecimal digit
HexValue(c) ==
    IF c \in 48 .. 57 THEN c - 48 ELSE IF c \in 97 .. 102 THEN c - 87 ELSE c - 55

\* base16ToBinary (str): one byte per pair of digits
base16ToBinary(str) ==
    [ i \in 1 .. Len(str) \div 2 |-> 16 * HexValue(str[2 * i - 1]) + HexValue(str[2 * i]) ]

\* The outputs of the hash and of the curve are blocks of bytes of a known
\* size whose contents are determined by the inputs and by nothing else; two
\* blocks are equal exactly when they were computed from equal inputs.
\* A byte array assembled from blocks is the sequence of its blocks.

\* new Uint8Array (bytes) as a block
Raw(bytes) == [ bytes |-> Len(bytes), of |-> <<"raw", bytes>> ]

\* blake2b (msg, { dkLen })
blake2b(msg, dkLen) == [ bytes |-> dkLen, of |-> <<"blake2b", msg>> ]

\* ed25519.sign (digest, keyBytes): 64 bytes
ed25519_sign(digest, keyBytes) ==
    [ bytes |-> 64, of |-> <<"ed25519.sign", keyBytes, digest>> ]

\* ed25519.getPublicKey (keyBytes): 32 bytes
ed25519_getPublicKey(keyBytes) ==
    [ bytes |-> 32, of |-> <<"ed25519.getPublicKey", keyBytes>> ]

\* ed25519.verify (sig, digest, pubkey): sig was made over digest with the
\* private key of pubkey
ed25519_verify(sig, digest, pubkey) ==
    /\ sig.of[1] = "ed25519.sign"
    /\ sig.of[3] = digest
    /\ ed25519_getPublicKey(sig.of[2]) = pubkey

\* the number of bytes of an array of blocks
RECURSIVE byteLength(_)
byteLength(blocks) ==
    IF blocks = <<>> THEN 0 ELSE Head(blocks).bytes + byteLength(Tail(blocks))

\* concatBytes (a, b, c)
concatBytes3(a, b, c) == a \o b \o c

\* binaryToBase64 (bytes): four characters per three bytes, padded
binaryToBase64(blocks) ==
    [ chars |-> 4 * ((byteLength(blocks) + 2) \div 3), base64 |-> blocks ]

\* Buffer.from (str, 'base64')
base64ToBinary(str) == str.base64

\* variant: the scheme flag byte left out of the envelope
suiSignPersonalMessage_noFlag(message, privateKeyHex) ==
    LET bcsMsg == bcsSerializeBytes(message)
        intentMsg == concatBytes(<<3, 0, 0>>, bcsMsg)
        digest == blake2b(intentMsg, 32)
        keyBytes == base16ToBinary(Remove0x(privateKeyHex))
        sig == ed25519_sign(digest, keyBytes)
        pubkey == ed25519_getPublicKey(keyBytes)
        envelope == concatBytes(<<sig>>, <<pubkey>>)
    IN  binaryToBase64(envelope)

\* variant: the intent bytes appended after the message instead of before it
suiSignPersonalMessage_intentLast(message, privateKeyHex) ==
    LET bcsMsg == bcsSerializeBytes(message)
        intentMsg == concatBytes(bcsMsg, <<3, 0, 0>>)
        digest == blake2b(intentMsg, 32)
        keyBytes == base16ToBinary(Remove0x(privateKeyHex))
        sig == ed25519_sign(digest, keyBytes)
        pubkey == ed25519_getPublicKey(keyBytes)
        envelope == concatBytes3(<<Raw(<<0>>)>>, <<sig>>, <<pubkey>>)
    IN  binaryToBase64(envelope)

suiSignPersonalMessage(message, privateKeyHex) ==
    LET bcsMsg == bcsSerializeBytes(message)
        intentMsg == concatBytes(<<3, 0, 0>>, bcsMsg)
        digest == blake2b(intentMsg, 32)
        keyBytes == base16ToBinary(Remove0x(privateKeyHex))
        sig == ed25519_sign(digest, keyBytes)
        pubkey == ed25519_getPublicKey(keyBytes)
        envelope == concatBytes3(<<Raw(<<0>>)>>, <<sig>>, <<pubkey>>)
    IN  binaryToBase64(envelope)

\* a < b in the order of Array.prototype.sort on strings
RECURSIVE StringLess(_, _)
StringLess(a, b) ==
    IF b = <<>> THEN FALSE
    ELSE IF a = <<>> THEN TRUE
    ELSE IF Head(a) # Head(b) THEN Head(a) < Head(b)
    ELSE StringLess(Tail(a), Tail(b))

\* variant: the payload rendered without indentation, JSON.stringify (payload)
signTradeRequest_compact(payload) ==
    LET defined == SelectSeq(payload, LAMBDA p : p.value.type # "undefined")
        json == <<123>>
                \o Join([ i \in 1 .. Len(defined) |->
                            ( IF i = 1 THEN <<>> ELSE <<44>> )
                            \o QuoteJSONString(defined[i].key) \o <<58>>
                            \o SerializeJSONProperty(defined[i].value, 0) ])
                \o <<125>>
    IN  suiSignPersonalMessage(utf8ToBytes(json), Val(privateKey))

\* variant: the keys sorted before the payload is rendered
signTradeRequest_sortedKeys(payload) ==
    LET sorted == SortSeq(payload, LAMBDA p, q : StringLess(p.key, q.key))
        json == JSON_stringify(sorted)
    IN  suiSignPersonalMessage(utf8ToBytes(json), Val(privateKey))

\* variant: the time of signing added to what is signed
signTradeRequest_timestamped(payload) ==
    LET stamped == payload \o << Property(<<116>>, Number(now[1])) >>
        json == JSON_stringify(stamped)
    IN  suiSignPersonalMessage(utf8ToBytes(json), Val(privateKey))

signTradeRequest(payload) ==
    LET json == JSON_stringify(payload)
    IN  suiSignPersonalMessage(utf8ToBytes(json), Val(privateKey))

\* ---- the signing primitives on their own ----
\* The unit tests sign messages and payloads on a client that never touches
\* the network; here a login is under way when the signing begins, so that
\* the clock may advance and tokens may be stored between two signatures.

\* the string literals of the code and of the unit tests, by name
str ==
    [
      \* 'type'
      type |->
        << 116, 121, 112, 101 >>,
      \* 'eds'
      eds |->
        << 101, 100, 115 >>,
      \* 'ids'
      ids |->
        << 105, 100, 115 >>,
      \* 'assetSymbol'
      assetSymbol |->
        << 97, 115, 115, 101, 116, 83, 121, 109, 98, 111, 108 >>,
      \* 'account'
      account |->
        << 97, 99, 99, 111, 117, 110, 116 >>,
      \* 'market'
      market |->
        << 109, 97, 114, 107, 101, 116 >>,
      \* 'add'
      add |->
        << 97, 100, 100 >>,
      \* 'amount'
      amount |->
        << 97, 109, 111, 117, 110, 116 >>,
      \* 'salt'
      salt |->
        << 115, 97, 108, 116 >>,
      \* 'signedAt'
      signedAt |->
        << 115, 105, 103, 110, 101, 100, 65, 116 >>,
      \* 'price'
      price |->
        << 112, 114, 105, 99, 101 >>,
      \* 'quantity'
      quantity |->
        << 113, 117, 97, 110, 116, 105, 116, 121 >>,
      \* 'leverage'
      leverage |->
        << 108, 101, 118, 101, 114, 97, 103, 101 >>,
      \* 'side'
      side |->
        << 115, 105, 100, 101 >>,
      \* 'positionType'
      positionType |->
        << 112, 111, 115, 105, 116, 105, 111, 110, 84, 121, 112, 101 >>,
      \* 'expiration'
      expiration |->
        << 101, 120, 112, 105, 114, 97, 116, 105, 111, 110 >>,
      \* 'Bluefin Pro Order'
      BluefinProOrder |->
        << 66, 108, 117, 101, 102, 105, 110, 32, 80, 114, 111, 32, 79, 114, 100, 101, 114 >>,
      \* 'Bluefin Pro Leverage Adjustment'
      BluefinProLeverageAdjustment |->
        << 66, 108, 117, 101, 102, 105, 110, 32, 80, 114, 111, 32, 76, 101, 118, 101, 114, 97, 103, 101, 32, 65, 100, 106, 117, 115, 116, 109, 101, 110, 116 >>,
      \* 'Bluefin Pro Withdrawal'
      BluefinProWithdrawal |->
        << 66, 108, 117, 101, 102, 105, 110, 32, 80, 114, 111, 32, 87, 105, 116, 104, 100, 114, 97, 119, 97, 108 >>,
      \* 'Bluefin Pro Margin Adjustment'
      BluefinProMarginAdjustment |->
        << 66, 108, 117, 101, 102, 105, 110, 32, 80, 114, 111, 32, 77, 97, 114, 103, 105, 110, 32, 65, 100, 106, 117, 115, 116, 109, 101, 110, 116 >>,
      \* 'LONG'
      LONG |->
        << 76, 79, 78, 71 >>,
      \* 'SHORT'
      SHORT |->
        << 83, 72, 79, 82, 84 >>,
      \* 'ISOLATED'
      ISOLATED |->
        << 73, 83, 79, 76, 65, 84, 69, 68 >>,
      \* 'CROSS'
      CROSS |->
        << 67, 82, 79, 83, 83 >>,
      \* 'eds-456'
      eds456 |->
        << 101, 100, 115, 45, 52, 53, 54 >>,
      \* 'ids-123'
      ids123 |->
        << 105, 100, 115, 45, 49, 50, 51 >>,
      \* 'USDC'
      USDC |->
        << 85, 83, 68, 67 >>,
      \* 'BTC_USD'
      BTC_USD |->
        << 66, 84, 67, 95, 85, 83, 68 >>,
      \* 'BTC-PERP'
      BTC_PERP |->
        << 66, 84, 67, 45, 80, 69, 82, 80 >>,
      \* 'US"D\C\né'
      quoted |->
        << 85, 83, 34, 68, 92, 67, 10, 233 >>,
      \* '100000000000'
      n100000000000 |->
        << 49, 48, 48, 48, 48, 48, 48, 48, 48, 48, 48, 48 >>,
      \* '100000000001'
      n100000000001 |->
        << 49, 48, 48, 48, 48, 48, 48, 48, 48, 48, 48, 49 >>,
      \* '50000000000'
      n50000000000 |->
        << 53, 48, 48, 48, 48, 48, 48, 48, 48, 48, 48 >>,
      \* '111'
      n111 |->
        << 49, 49, 49 >>,
      \* '222'
      n222 |->
        << 50, 50, 50 >>,
      \* '1699999999000'
      n1699999999000 |->
        << 49, 54, 57, 57, 57, 57, 57, 57, 57, 57, 48, 48, 48 >>,
      \* '0'
      n0 |->
        << 48 >>,
      \* '1'
      n1 |->
        << 49 >>,
      \* '0.5'
      n0_5 |->
        << 48, 46, 53 >>,
      \* '5'
      n5 |->
        << 53 >>,
      \* '10'
      n10 |->
        << 49, 48 >>,
      \* '50000'
      n50000 |->
        << 53, 48, 48, 48, 48 >>,
      \* 'BTC'
      BTC |->
        << 66, 84, 67 >>,
      \* '-PERP'
      dashPERP |->
        << 45, 80, 69, 82, 80 >>,
      \* 'Add'
      Add |->
        << 65, 100, 100 >>,
      \* 'Remove'
      Remove |->
        << 82, 101, 109, 111, 118, 101 >>,
      \* 'order-1'
      order1 |->
        << 111, 114, 100, 101, 114, 45, 49 >>,
      \* 'hello world'
      helloWorld |->
        << 104, 101, 108, 108, 111, 32, 119, 111, 114, 108, 100 >> ]

\* withdrawPayload of the unit tests, with the given asset, amount and salt
withdrawPayload(assetSymbol, amount, salt) ==
    << Property(str.type, String(str.BluefinProWithdrawal)),
       Property(str.eds, String(str.eds456)),
       Property(str.assetSymbol, assetSymbol),
       Property(str.account, String(TEST_WALLET_ADDRESS)),
       Property(str.amount, amount),
       Property(str.salt, salt),
       Property(str.signedAt, String(str.n1699999999000)) >>

\* the same properties with amount and salt written in the other order
withdrawPayloadReordered(assetSymbol, amount, salt) ==
    << Property(str.type, String(str.BluefinProWithdrawal)),
       Property(str.eds, String(str.eds456)),
       Property(str.assetSymbol, assetSymbol),
       Property(str.account, String(TEST_WALLET_ADDRESS)),
       Property(str.salt, salt),
       Property(str.amount, amount),
       Property(str.signedAt, String(str.n1699999999000)) >>

\* marginPayload of the unit tests
marginPayload(add) ==
    << Property(str.type, String(str.BluefinProMarginAdjustment)),
       Property(str.ids, String(str.ids123)),
       Property(str.account, String(TEST_WALLET_ADDRESS)),
       Property(str.market, String(str.BTC_USD)),
       Property(str.add, Boolean(add)),
       Property(str.amount, String(str.n50000000000)),
       Property(str.salt, String(str.n222)),
       Property(str.signedAt, String(str.n1699999999000)) >>

\* payloads of the declared types: every value a string or a boolean
TypedPayloads ==
    { withdrawPayload(String(a), String(str.n100000000000), String(str.n111)) :
          a \in { str.USDC, str.quoted } }
    \cup { withdrawPayload(String(str.USDC), String(str.n100000000001), String(str.n111)),
           withdrawPayloadReordered(String(str.USDC), String(str.n100000000000), String(str.n111)) }
    \cup { marginPayload(b) : b \in BOOLEAN }

\* payloads a caller can build that the declared types do not allow: an
\* amount that is undefined (toE9 of undefined), a number, or an object
UntypedPayloads ==
    { withdrawPayload(String(str.USDC), m, String(str.n111)) :
          m \in { Undefined, Number(100), Object(<< Property(str.amount, String(str.n111)) >>) } }

SignPayloads == TypedPayloads \cup UntypedPayloads

\* messages: empty, short and 300 bytes
SignMessages ==
    { <<>>, utf8ToBytes(str.helloWorld), [ i \in 1 .. 300 |-> (44 + i) % 256 ] }

SignKeys == { TEST_PRIVATE_KEY, TEST_PRIVATE_KEY_BARE, OTHER_PRIVATE_KEY }

\* the calls of suiSignPersonalMessage: every message under the tests' key,
\* and one message under every key
SignPersonalCalls ==
    { <<m, TEST_PRIVATE_KEY>> : m \in SignMessages }
    \cup { <<utf8ToBytes(str.helloWorld), k>> : k \in SignKeys }

\* the response of the login made between two signatures
SignBody ==
    [ accessToken |-> Some(1), refreshToken |-> Some(1),
      accessTokenValidForSeconds |-> NONE, refreshTokenValidForSeconds |-> NONE ]

InitSign ==
    /\ options = EmptyOptions
    /\ now = Epoch
    /\ credentials = TRUE
    /\ calls = [ c \in Calls |->
                   IF c = 1 THEN authenticateStart([ IdleCall EXCEPT !.op = "authenticate" ])
                   ELSE IdleCall ]
    /\ probe = NONE
    /\ walletAddress = Some(TEST_WALLET_ADDRESS)
    /\ privateKey = Some(TEST_PRIVATE_KEY)
    /\ data = NONE
    /\ result = <<>>
    /\ trade = NONE

\* the call just made is remembered together with the one before it: the
\* function, its argument, the key, the clock reading, the error thrown (none:
\* neither function has a throw statement) and the value returned
Remember(call) == IF result = <<>> THEN <<call>> ELSE <<call, result[1]>>

SuiSignPersonalMessage(message, privateKeyHex) ==
    /\ data' = Some(message)
    /\ result' = Remember([ fn |-> "suiSignPersonalMessage", input |-> message,
                            key |-> privateKeyHex, at |-> now, err |-> "none",
                            out |-> suiSignPersonalMessage(message, privateKeyHex) ])
    /\ UNCHANGED <<options, now, credentials, calls, probe, walletAddress, privateKey, trade>>

SignTradeRequest(payload) ==
    /\ data' = Some(payload)
    /\ result' = Remember([ fn |-> "signTradeRequest", input |-> payload,
                            key |-> Val(privateKey), at |-> now, err |-> "none",
                            out |-> signTradeRequest(payload) ])
    /\ UNCHANGED <<options, now, credentials, calls, probe, walletAddress, privateKey, trade>>

NextSign ==
    \/ \E c \in SignPersonalCalls : SuiSignPersonalMessage(c[1], c[2])
    \/ \E p \in SignPayloads : SignTradeRequest(p)
    \/ Tick(Time(240, 0))
    \/ AuthenticateResponse(1, SignBody)

SpecSign == InitSign /\ [][NextSign]_vars

\* ---- decimal strings: numberToString, Precise, toE9 ----

\* n characters '0'
Zeros(n) == IF n <= 0 THEN <<>> ELSE [ i \in 1 .. n |-> 48 ]

\* a JavaScript number with a short decimal expansion: mantissa * 10^exponent,
\* the mantissa a natural number not ending in 0 unless it is 0
Decimal(mantissa, exponent) == [ mantissa |-> mantissa, exponent |-> exponent ]

\* numberToString (x): the decimal expansion without exponent
numberToString(x) ==
    LET digits == NumberToString(x.mantissa)
    IN  IF x.mantissa = 0 THEN <<48>>
        ELSE IF x.exponent >= 0 THEN digits \o Zeros(x.exponent)
        ELSE LET padded == Zeros(1 - x.exponent - Len(digits)) \o digits
                 point == Len(padded) + x.exponent
             IN  SubSeq(padded, 1, point) \o <<46>> \o SubSeq(padded, point + 1, Len(padded))

\* BigInt (integerString).toString (): leading zeros dropped
BigIntString(digits) ==
    LET nonzero == { i \in 1 .. Len(digits) : digits[i] # 48 }
    IN  IF nonzero = {} THEN <<48>>
        ELSE SubSeq(digits, CHOOSE i \in nonzero : \A j \in nonzero : i <= j, Len(digits))

\* new Precise (value), value a decimal string without sign or exponent
PreciseOf(value) ==
    LET dots == { i \in 1 .. Len(value) : value[i] = 46 }
        decimalIndex == IF dots = {} THEN 0 ELSE CHOOSE i \in dots : \A j \in dots : i <= j
    IN  IF decimalIndex = 0
        THEN [ integer |-> BigIntString(value), decimals |-> 0 ]
        ELSE [ integer |-> BigIntString(SubSeq(value, 1, decimalIndex - 1)
                                        \o SubSeq(value, decimalIndex + 1, Len(value))),
               decimals |-> Len(value) - decimalIndex ]

\* precise.reduce (): trailing zeros of the integer moved into decimals
PreciseReduce(precise) ==
    LET string == precise.integer
    IN  IF Len(string) = 1
        THEN IF string = <<48>> THEN [ precise EXCEPT !.decimals = 0 ] ELSE precise
        ELSE LET nonzero == { i \in 1 .. Len(string) : string[i] # 48 }
                 last == CHOOSE i \in nonzero : \A j \in nonzero : j <= i
                 difference == Len(string) - last
             IN  IF difference = 0 THEN precise
                 ELSE [ integer |-> SubSeq(string, 1, last),
                        decimals |-> precise.decimals - difference ]

\* precise.toString ()
PreciseToString(precise) ==
    LET reduced == PreciseReduce(precise)
        integerArray == Zeros(reduced.decimals - Len(reduced.integer)) \o reduced.integer
        index == Len(integerArray) - reduced.decimals
        item == IF index = 0 THEN <<48, 46>>
                ELSE IF reduced.decimals < 0 THEN Zeros(0 - reduced.decimals)
                ELSE IF reduced.decimals = 0 THEN <<>>
                ELSE <<46>>
        at == IF index > Len(integerArray) THEN Len(integerArray) ELSE index
    IN  SubSeq(integerArray, 1, at) \o item \o SubSeq(integerArray, at + 1, Len(integerArray))

\* toE9 cutting the result to an integer string
toE9_truncating(value) ==
    IF value = NONE THEN NONE
    ELSE LET precise == PreciseOf(Val(value))
             reduced == PreciseReduce([ precise EXCEPT !.decimals = @ - 9 ])
             kept == Len(reduced.integer) - reduced.decimals
         IN  IF reduced.decimals <= 0 THEN Some(PreciseToString(reduced))
             ELSE Some(PreciseToString(
                      [ integer |-> IF kept > 0 THEN SubSeq(reduced.integer, 1, kept)
                                    ELSE <<48>>,
                        decimals |-> 0 ]))

\* toE9 reading an undefined value as '0'
toE9_zeroDefault(value) ==
    LET precise == PreciseOf(IF value = NONE THEN <<48>> ELSE Val(value))
        shifted == [ precise EXCEPT !.decimals = @ - 9 ]
    IN  Some(PreciseToString(PreciseReduce(shifted)))

\* toE9 (value): undefined for undefined, else the value times 10^9
toE9(value) ==
    IF value = NONE THEN NONE
    ELSE LET precise == PreciseOf(Val(value))
             shifted == [ precise EXCEPT !.decimals = @ - 9 ]
         IN  Some(PreciseToString(PreciseReduce(shifted)))

\* parseE9 keeping nine fractional digits
parseE9_truncating(value) ==
    IF value = NONE THEN NONE
    ELSE LET precise == PreciseOf(Val(value))
             reduced == PreciseReduce([ precise EXCEPT !.decimals = @ + 9 ])
             cut == reduced.decimals - 9
         IN  IF cut <= 0 THEN Some(PreciseToString(reduced))
             ELSE Some(PreciseToString(
                      [ integer |-> IF Len(reduced.integer) > cut
                                    THEN SubSeq(reduced.integer, 1, Len(reduced.integer) - cut)
                                    ELSE <<48>>,
                        decimals |-> 9 ]))

\* parseE9 (value): undefined for undefined, else the value divided by 10^9
parseE9(value) ==
    IF value = NONE THEN NONE
    ELSE LET precise == PreciseOf(Val(value))
             shifted == [ precise EXCEPT !.decimals = @ + 9 ]
         IN  Some(PreciseToString(PreciseReduce(shifted)))

\* ---- toE9 and parseE9 on their own ----
\* The functions are applied to a value (undefined, or a string of decimal
\* digits with at most one point) and then to each other's results; `data`
\* holds the first argument and `result` the calls made, oldest first.

E9Strings ==
    {
      \* '1'
      << 49 >>,
      \* '0.5'
      << 48, 46, 53 >>,
      \* '100'
      << 49, 48, 48 >>,
      \* '0.000000001'
      << 48, 46, 48, 48, 48, 48, 48, 48, 48, 48, 49 >>,
      \* '99999999.999999999'
      << 57, 57, 57, 57, 57, 57, 57, 57, 46, 57, 57, 57, 57, 57, 57, 57, 57, 57 >>,
      \* '0'
      << 48 >>,
      \* '1000000000'
      << 49, 48, 48, 48, 48, 48, 48, 48, 48, 48 >>,
      \* '500000000'
      << 53, 48, 48, 48, 48, 48, 48, 48, 48 >>,
      \* '50000'
      << 53, 48, 48, 48, 48 >>,
      \* '10'
      << 49, 48 >>,
      \* '123.456'
      << 49, 50, 51, 46, 52, 53, 54 >>,
      \* '0.1234567891'
      << 48, 46, 49, 50, 51, 52, 53, 54, 55, 56, 57, 49 >>,
      \* '0.0000000001'
      << 48, 46, 48, 48, 48, 48, 48, 48, 48, 48, 48, 49 >>,
      \* '1.0000000005'
      << 49, 46, 48, 48, 48, 48, 48, 48, 48, 48, 48, 53 >>,
      \* '12345678901234567890'
      << 49, 50, 51, 52, 53, 54, 55, 56, 57, 48, 49, 50, 51, 52, 53, 54, 55, 56, 57, 48 >>,
      \* '1.50'
      << 49, 46, 53, 48 >>,
      \* '007'
      << 48, 48, 55 >>,
      \* '0.10'
      << 48, 46, 49, 48 >>,
      \* '00.5'
      << 48, 48, 46, 53 >>,
      \* '0.0'
      << 48, 46, 48 >>,
      \* '0.000000010'
      << 48, 46, 48, 48, 48, 48, 48, 48, 48, 49, 48 >> }

E9Inputs == { NONE } \cup { Some(v) : v \in E9Strings }

\* the longest chain of calls followed
MaxE9Calls == 2

InitE9 ==
    /\ options = EmptyOptions
    /\ now = Epoch
    /\ credentials = TRUE
    /\ calls = [ c \in Calls |-> IdleCall ]
    /\ probe = NONE
    /\ walletAddress = Some(TEST_WALLET_ADDRESS)
    /\ privateKey = Some(TEST_PRIVATE_KEY)
    /\ data \in { Some(v) : v \in E9Inputs }
    /\ result = <<>>
    /\ trade = NONE

\* the value the next call is given
E9Argument == IF result = <<>> THEN Val(data) ELSE result[Len(result)].out

\* neither function has a throw statement
ToE9 ==
    /\ Len(result) < MaxE9Calls
    /\ result' = Append(result, [ fn |-> "toE9", input |-> E9Argument, err |-> "none",
                                  out |-> toE9(E9Argument) ])
    /\ UNCHANGED <<options, now, credentials, calls, probe, walletAddress, privateKey, data, trade>>

ParseE9 ==
    /\ Len(result) < MaxE9Calls
    /\ result' = Append(result, [ fn |-> "parseE9", input |-> E9Argument, err |-> "none",
                                  out |-> parseE9(E9Argument) ])
    /\ UNCHANGED <<options, now, credentials, calls, probe, walletAddress, privateKey, data, trade>>

NextE9 == ToE9 \/ ParseE9

SpecE9 == InitE9 /\ [][NextE9]_vars

\* ---- private write methods: what each does once it holds a token ----

\* the markets loadMarkets () knows
Markets == { [ symbol |-> "BTC/USDC:USDC", id |-> str.BTC_PERP, base |-> str.BTC ] }
market(symbol) == CHOOSE m \in Markets : m.symbol = symbol

\* bluefinSymbol (symbol): base + '-PERP'
bluefinSymbol(symbol) == market(symbol).base \o str.dashPERP

\* this.milliseconds ()
milliseconds == now[1] * 1000 + now[2]

\* the values Math.floor (Math.random () * 1000000) may take here
SaltDraws == { 0, 999999 }

\* generateSalt (), the random term being draw
generateSalt(draw) == NumberToString(milliseconds + draw)

\* parseToInt (str), str a string of decimal digits
RECURSIVE parseToInt(_)
parseToInt(digits) ==
    IF digits = <<>> THEN 0
    ELSE 10 * parseToInt(SubSeq(digits, 1, Len(digits) - 1)) + (digits[Len(digits)] - 48)

\* a string property of a payload; undefined stays undefined
StringValue(o) == IF o = NONE THEN Undefined ELSE String(Val(o))

\* params without any of the keys the methods read
NoParams ==
    [ leverage |-> NONE, isIsolated |-> NONE, reduceOnly |-> NONE, postOnly |-> NONE,
      timeInForce |-> NONE, clientOrderId |-> NONE ]

\* the outcome of the synchronous part of a method: the error thrown, or the
\* payload signed (none: nothing was signed), its signature, and the request
Thrown(class) ==
    [ err |-> class, uiPayload |-> NONE, signature |-> NONE, endpoint |-> "none", body |-> NONE ]
Sent(uiPayload, signature, endpoint, body) ==
    [ err |-> "none", uiPayload |-> uiPayload, signature |-> signature,
      endpoint |-> endpoint, body |-> Some(body) ]

\* variant: generateSalt () called again for the request
createOrder_secondSalt(args, contractsConfig, draw) ==
    LET idsId == contractsConfig.idsId
        leverage == safeNumber(args.params.leverage, str.n1)
        isIsolated == safeNumber(args.params.isIsolated, FALSE)
        reduceOnly == safeNumber(args.params.reduceOnly, FALSE)
        postOnly == safeNumber(args.params.postOnly, FALSE)
        bluefinSide == IF args.side = "buy" THEN str.LONG ELSE str.SHORT
        priceStr == IF args.price # NONE THEN numberToString(Val(args.price)) ELSE str.n0
        amountStr == numberToString(args.amount)
        priceE9 == toE9(Some(priceStr))
        quantityE9 == toE9(Some(amountStr))
        leverageE9 == toE9(Some(leverage))
        salt == generateSalt(draw)
        expiration == NumberToString(milliseconds + 86400000)
        signedAt == NumberToString(milliseconds)
        uiPayload ==
            << Property(str.type, String(str.BluefinProOrder)),
               Property(str.ids, StringValue(idsId)),
               Property(str.account, StringValue(walletAddress)),
               Property(str.market, String(market(args.symbol).id)),
               Property(str.price, StringValue(priceE9)),
               Property(str.quantity, StringValue(quantityE9)),
               Property(str.leverage, StringValue(leverageE9)),
               Property(str.side, String(bluefinSide)),
               Property(str.positionType,
                        String(IF isIsolated THEN str.ISOLATED ELSE str.CROSS)),
               Property(str.expiration, String(expiration)),
               Property(str.salt, String(salt)),
               Property(str.signedAt, String(signedAt)) >>
        signature == signTradeRequest(uiPayload)
    IN  IF idsId = NONE THEN Thrown("ArgumentsRequired")
        ELSE Sent(Some(uiPayload), Some(signature), "tradePostApiV1TradeOrders",
                  [ signedFields |->
                        [ symbol |-> market(args.symbol).id,
                          accountAddress |-> walletAddress,
                          priceE9 |-> priceE9,
                          quantityE9 |-> quantityE9,
                          side |-> bluefinSide,
                          leverageE9 |-> leverageE9,
                          isIsolated |-> isIsolated,
                          salt |-> generateSalt(999999 - draw),
                          idsId |-> Val(idsId),
                          expiresAtMillis |-> parseToInt(expiration),
                          signedAtMillis |-> milliseconds ],
                    signature |-> Some(signature),
                    type |-> IF args.type = "limit" THEN "LIMIT" ELSE "MARKET",
                    reduceOnly |-> reduceOnly,
                    postOnly |-> IF postOnly THEN Some(TRUE) ELSE NONE,
                    timeInForce |-> args.params.timeInForce,
                    clientOrderId |-> args.params.clientOrderId ])

\* createOrder, from `const market` to the request
createOrder(args, contractsConfig, draw) ==
    LET idsId == contractsConfig.idsId
        leverage == safeNumber(args.params.leverage, str.n1)
        isIsolated == safeNumber(args.params.isIsolated, FALSE)
        reduceOnly == safeNumber(args.params.reduceOnly, FALSE)
        postOnly == safeNumber(args.params.postOnly, FALSE)
        bluefinSide == IF args.side = "buy" THEN str.LONG ELSE str.SHORT
        priceStr == IF args.price # NONE THEN numberToString(Val(args.price)) ELSE str.n0
        amountStr == numberToString(args.amount)
        priceE9 == toE9(Some(priceStr))
        quantityE9 == toE9(Some(amountStr))
        leverageE9 == toE9(Some(leverage))
        salt == generateSalt(draw)
        expiration == NumberToString(milliseconds + 86400000)
        signedAt == NumberToString(milliseconds)
        uiPayload ==
            << Property(str.type, String(str.BluefinProOrder)),
               Property(str.ids, StringValue(idsId)),
               Property(str.account, StringValue(walletAddress)),
               Property(str.market, String(market(args.symbol).id)),
               Property(str.price, StringValue(priceE9)),
               Property(str.quantity, StringValue(quantityE9)),
               Property(str.leverage, StringValue(leverageE9)),
               Property(str.side, String(bluefinSide)),
               Property(str.positionType,
                        String(IF isIsolated THEN str.ISOLATED ELSE str.CROSS)),
               Property(str.expiration, String(expiration)),
               Property(str.salt, String(salt)),
               Property(str.signedAt, String(signedAt)) >>
        signature == signTradeRequest(uiPayload)
    IN  IF idsId = NONE THEN Thrown("ArgumentsRequired")
        ELSE Sent(Some(uiPayload), Some(signature), "tradePostApiV1TradeOrders",
                  [ signedFields |->
                        [ symbol |-> market(args.symbol).id,
                          accountAddress |-> walletAddress,
                          priceE9 |-> priceE9,
                          quantityE9 |-> quantityE9,
                          side |-> bluefinSide,
                          leverageE9 |-> leverageE9,
                          isIsolated |-> isIsolated,
                          salt |-> salt,
                          idsId |-> Val(idsId),
                          expiresAtMillis |-> parseToInt(expiration),
                          signedAtMillis |-> milliseconds ],
                    signature |-> Some(signature),
                    type |-> IF args.type = "limit" THEN "LIMIT" ELSE "MARKET",
                    reduceOnly |-> reduceOnly,
                    postOnly |-> IF postOnly THEN Some(TRUE) ELSE NONE,
                    timeInForce |-> args.params.timeInForce,
                    clientOrderId |-> args.params.clientOrderId ])

\* cancelOrder, from the request on
cancelOrder(args, contractsConfig, draw) ==
    Sent(NONE, NONE, "tradePutApiV1TradeOrdersCancel",
         [ orderHashes |-> << args.id >>,
           symbol |-> IF args.symbol # NONE THEN Some(bluefinSymbol(Val(args.symbol))) ELSE NONE,
           signature |-> NONE ])

\* cancelOrders, from the request on
cancelOrders(args, contractsConfig, draw) ==
    Sent(NONE, NONE, "tradePutApiV1TradeOrdersCancel",
         [ orderHashes |-> args.ids,
           symbol |-> IF args.symbol # NONE THEN Some(bluefinSymbol(Val(args.symbol))) ELSE NONE,
           signature |-> NONE ])

\* setLeverage, from `const market` to the request
setLeverage(args, contractsConfig, draw) ==
    LET idsId == contractsConfig.idsId
        leverageE9 == toE9(Some(numberToString(args.leverage)))
        salt == generateSalt(draw)
        signedAt == NumberToString(milliseconds)
        uiPayload ==
            << Property(str.type, String(str.BluefinProLeverageAdjustment)),
               Property(str.ids, StringValue(idsId)),
               Property(str.account, StringValue(walletAddress)),
               Property(str.market, String(market(Val(args.symbol)).id)),
               Property(str.leverage, StringValue(leverageE9)),
               Property(str.salt, String(salt)),
               Property(str.signedAt, String(signedAt)) >>
        signature == signTradeRequest(uiPayload)
    IN  IF idsId = NONE THEN Thrown("ArgumentsRequired")
        ELSE Sent(Some(uiPayload), Some(signature), "tradePutApiV1TradeLeverage",
                  [ signedFields |->
                        [ accountAddress |-> walletAddress,
                          symbol |-> market(Val(args.symbol)).id,
                          leverageE9 |-> leverageE9,
                          salt |-> salt,
                          idsId |-> Val(idsId),
                          signedAtMillis |-> milliseconds ],
                    signature |-> Some(signature) ])

\* adjustMargin, from `const market` to the request
adjustMargin(args, contractsConfig, draw) ==
    LET idsId == contractsConfig.idsId
        quantityE9 == toE9(Some(numberToString(args.amount)))
        salt == generateSalt(draw)
        signedAt == NumberToString(milliseconds)
        isAdd == (args.operation = str.Add)
        uiPayload ==
            << Property(str.type, String(str.BluefinProMarginAdjustment)),
               Property(str.ids, StringValue(idsId)),
               Property(str.account, StringValue(walletAddress)),
               Property(str.market, String(market(args.symbol).id)),
               Property(str.add, Boolean(isAdd)),
               Property(str.amount, StringValue(quantityE9)),
               Property(str.salt, String(salt)),
               Property(str.signedAt, String(signedAt)) >>
        signature == signTradeRequest(uiPayload)
    IN  IF idsId = NONE THEN Thrown("ArgumentsRequired")
        ELSE Sent(Some(uiPayload), Some(signature), "tradePutApiV1TradeAdjustIsolatedMargin",
                  [ signedFields |->
                        [ idsId |-> Val(idsId),
                          accountAddress |-> walletAddress,
                          symbol |-> market(args.symbol).id,
                          operation |-> args.operation,
                          quantityE9 |-> quantityE9,
                          salt |-> salt,
                          signedAtMillis |-> milliseconds ],
                    signature |-> Some(signature) ])

\* withdraw, from `const contractsConfig` to the request
withdraw(args, contractsConfig, draw) ==
    LET edsId == contractsConfig.edsId
        amountE9 == toE9(Some(numberToString(args.amount)))
        salt == generateSalt(draw)
        signedAt == NumberToString(milliseconds)
        uiPayload ==
            << Property(str.type, String(str.BluefinProWithdrawal)),
               Property(str.eds, StringValue(edsId)),
               Property(str.assetSymbol, String(args.code)),
               Property(str.account, StringValue(walletAddress)),
               Property(str.amount, StringValue(amountE9)),
               Property(str.salt, String(salt)),
               Property(str.signedAt, String(signedAt)) >>
        signature == signTradeRequest(uiPayload)
    IN  IF edsId = NONE THEN Thrown("ArgumentsRequired")
        ELSE Sent(Some(uiPayload), Some(signature), "tradePostApiV1TradeWithdraw",
                  [ signedFields |->
                        [ assetSymbol |-> args.code,
                          accountAddress |-> walletAddress,
                          amountE9 |-> amountE9,
                          salt |-> salt,
                          edsId |-> Val(edsId),
                          signedAtMillis |-> milliseconds ],
                    signature |-> Some(signature) ])

\* fetchBalance, from the endpoint call on
fetchBalance(args, contractsConfig, draw) ==
    Sent(NONE, NONE, "accountGetApiV1Account", [ symbol |-> NONE, limit |-> NONE ])

\* fetchPositions, from the endpoint call on
fetchPositions(args, contractsConfig, draw) ==
    Sent(NONE, NONE, "accountGetApiV1Account", [ symbol |-> NONE, limit |-> NONE ])

\* fetchMyTrades, from the request on
fetchMyTrades(args, contractsConfig, draw) ==
    Sent(NONE, NONE, "accountGetApiV1AccountTrades",
         [ symbol |-> IF args.symbol # NONE THEN Some(bluefinSymbol(Val(args.symbol))) ELSE NONE,
           limit |-> args.limit ])

\* fetchOpenOrders, from the request on
fetchOpenOrders(args, contractsConfig, draw) ==
    Sent(NONE, NONE, "tradeGetApiV1TradeOpenOrders",
         [ symbol |-> IF args.symbol # NONE THEN Some(bluefinSymbol(Val(args.symbol))) ELSE NONE,
           limit |-> NONE ])

\* the group of the api an endpoint method belongs to
ApiOf(endpoint) ==
    IF endpoint \in { "accountGetApiV1Account", "accountGetApiV1AccountTrades" }
    THEN "account"
    ELSE IF endpoint \in { "authPostAuthV2Token", "authPutAuthTokenRefresh" } THEN "auth"
    ELSE IF endpoint = "exchangeGetV1ExchangeInfo" THEN "exchange"
    ELSE "trade"

\* variant: the bearer token left off the private requests
sign_noBearer(api, payloadSignature) ==
    IF api = "exchange" THEN [ Authorization |-> NONE, payloadSignature |-> NONE ]
    ELSE IF api = "auth"
         THEN [ Authorization |-> NONE, payloadSignature |-> payloadSignature ]
    ELSE [ Authorization |-> NONE, payloadSignature |-> NONE ]

\* sign (path, api, method, params): the headers of the request besides
\* Content-Type; payloadSignature is params['payloadSignature']
sign(api, payloadSignature) ==
    IF api = "exchange" THEN [ Authorization |-> NONE, payloadSignature |-> NONE ]
    ELSE IF api = "auth"
         THEN [ Authorization |-> NONE, payloadSignature |-> payloadSignature ]
    ELSE LET token == options.accessToken
         IN  [ Authorization |->
                   IF token # NONE THEN Some([ scheme |-> "Bearer", token |-> Val(token) ])
                   ELSE NONE,
               payloadSignature |-> NONE ]

\* the method a call names, past its await of getAccessToken ()
AfterToken(args, contractsConfig, draw) ==
    CASE args.op = "createOrder" -> createOrder(args, contractsConfig, draw)
      [] args.op = "cancelOrder" -> cancelOrder(args, contractsConfig, draw)
      [] args.op = "cancelOrders" -> cancelOrders(args, contractsConfig, draw)
      [] args.op = "setLeverage" -> setLeverage(args, contractsConfig, draw)
      [] args.op = "adjustMargin" -> adjustMargin(args, contractsConfig, draw)
      [] args.op = "withdraw" -> withdraw(args, contractsConfig, draw)
      [] args.op = "fetchBalance" -> fetchBalance(args, contractsConfig, draw)
      [] args.op = "fetchPositions" -> fetchPositions(args, contractsConfig, draw)
      [] args.op = "fetchMyTrades" -> fetchMyTrades(args, contractsConfig, draw)
      [] args.op = "fetchOpenOrders" -> fetchOpenOrders(args, contractsConfig, draw)

\* the methods that build a payload and sign it
SigningMethods == { "createOrder", "setLeverage", "adjustMargin", "withdraw" }

\* the private write methods
WriteMethods == SigningMethods \cup { "cancelOrder", "cancelOrders" }

\* ---- the private write methods as calls ----
\* One caller invokes the write methods one after the other.  `trade` holds
\* options['contractsConfig'] and the caller's position in the method; the
\* method's getAccessToken () runs as call 1.  The caller's params hold only
\* keys the method reads, so that this.extend (request, params) is the request.

TradeSymbol == "BTC/USDC:USDC"

TradeConfigs ==
    { [ idsId |-> Some(str.ids123), edsId |-> Some(str.eds456) ],
      [ idsId |-> NONE, edsId |-> NONE ] }

TradeArgs ==
    { [ op |-> "createOrder", symbol |-> TradeSymbol, type |-> "limit", side |-> "buy",
        amount |-> Decimal(5, -1), price |-> Some(Decimal(5, 4)), params |-> NoParams ],
      [ op |-> "createOrder", symbol |-> TradeSymbol, type |-> "market", side |-> "sell",
        amount |-> Decimal(1, 0), price |-> NONE,
        params |-> [ NoParams EXCEPT !.leverage = Some(str.n10), !.isIsolated = Some(TRUE),
                                     !.postOnly = Some(TRUE),
                                     !.clientOrderId = Some(str.order1) ] ],
      [ op |-> "cancelOrder", id |-> str.order1, symbol |-> Some(TradeSymbol) ],
      [ op |-> "cancelOrder", id |-> str.order1, symbol |-> NONE ],
      [ op |-> "cancelOrders", ids |-> << str.order1, str.n111 >>, symbol |-> Some(TradeSymbol) ],
      [ op |-> "setLeverage", leverage |-> Decimal(1, 1), symbol |-> Some(TradeSymbol) ],
      [ op |-> "setLeverage", leverage |-> Decimal(1, 1), symbol |-> NONE ],
      [ op |-> "adjustMargin", symbol |-> TradeSymbol, amount |-> Decimal(1, 2),
        operation |-> str.Add ],
      [ op |-> "adjustMargin", symbol |-> TradeSymbol, amount |-> Decimal(1, 2),
        operation |-> str.Remove ],
      [ op |-> "withdraw", code |-> str.USDC, amount |-> Decimal(15, -1) ],
      [ op |-> "fetchBalance" ],
      [ op |-> "fetchPositions" ],
      [ op |-> "fetchMyTrades", symbol |-> Some(TradeSymbol), limit |-> Some(10) ],
      [ op |-> "fetchOpenOrders", symbol |-> NONE ] }

\* what the login and refresh endpoints answer here
TradeBodies ==
    { [ accessToken |-> Some(1), refreshToken |-> Some(1),
        accessTokenValidForSeconds |-> Some(300),
        refreshTokenValidForSeconds |-> Some(2592000) ],
      [ accessToken |-> NONE, refreshToken |-> NONE,
        accessTokenValidForSeconds |-> NONE,
        refreshTokenValidForSeconds |-> NONE ] }

IdleTrade(contractsConfig) ==
    [ pc |-> "idle",            \* idle, awaitToken, awaitResponse, returned, raised
      contractsConfig |-> contractsConfig,
      defaultMarginMode |-> NONE,   \* options['defaultMarginMode']
      args |-> NONE,            \* the method invoked and its arguments
      uiPayload |-> NONE,       \* the payload the method built
      signature |-> NONE,       \* the value signTradeRequest returned to it
      endpoint |-> "none",
      body |-> NONE,            \* the request it sent
      authorization |-> NONE,   \* the Authorization header sign () attached
      err |-> "none" ]

InitTrade ==
    /\ options = EmptyOptions
    /\ now = Epoch
    /\ credentials = TRUE
    /\ calls = [ c \in Calls |-> IdleCall ]
    /\ probe = NONE
    /\ walletAddress = Some(TEST_WALLET_ADDRESS)
    /\ privateKey = Some(TEST_PRIVATE_KEY)
    /\ data = NONE
    /\ result = <<>>
    /\ trade \in { IdleTrade(cfg) : cfg \in TradeConfigs }

\* the caller's position at the start of an invocation; the options stay
NewTrade ==
    [ IdleTrade(trade.contractsConfig) EXCEPT !.defaultMarginMode = trade.defaultMarginMode ]

\* the method is invoked and runs up to its await of getAccessToken ();
\* setLeverage without a symbol throws before it
TradeCall(args) ==
    /\ trade.pc \in { "idle", "returned", "raised" }
    /\ ~Active(1)
    /\ IF args.op = "setLeverage" /\ args.symbol = NONE
       THEN /\ trade' = [ NewTrade EXCEPT
                            !.pc = "raised", !.args = Some(args),
                            !.err = "ArgumentsRequired" ]
            /\ calls' = Settled
       ELSE /\ trade' = [ NewTrade EXCEPT
                            !.pc = "awaitToken", !.args = Some(args) ]
            /\ Step(1, getAccessTokenStart([ IdleCall EXCEPT !.op = "getAccessToken" ]))
    /\ data' = NONE
    /\ result' = <<>>
    /\ UNCHANGED <<options, now, credentials, probe, walletAddress, privateKey>>

\* marginMode.toLowerCase ()
toLowerCase(marginMode) ==
    CASE marginMode = "ISOLATED" -> "isolated"
      [] marginMode = "Cross" -> "cross"
      [] OTHER -> marginMode

MarginModes == { "isolated", "cross", "ISOLATED", "Cross", "hedged" }

\* setMarginMode (marginMode): it has no await
SetMarginMode(marginMode) ==
    /\ trade.pc \in { "idle", "returned", "raised" }
    /\ LET mode == toLowerCase(marginMode)
           args == Some([ op |-> "setMarginMode", marginMode |-> marginMode ])
       IN  trade' =
             IF mode # "isolated" /\ mode # "cross"
             THEN [ NewTrade EXCEPT !.pc = "raised", !.args = args,
                                    !.err = "ArgumentsRequired" ]
             ELSE [ NewTrade EXCEPT !.pc = "returned", !.args = args,
                                    !.defaultMarginMode = Some(mode) ]
    /\ calls' = Settled
    /\ data' = NONE
    /\ result' = <<>>
    /\ UNCHANGED <<options, now, credentials, probe, walletAddress, privateKey>>

\* getAccessToken () threw: the method throws the same error
TradeTokenRaised ==
    /\ trade.pc = "awaitToken"
    /\ calls[1].pc = "raised"
    /\ trade' = [ trade EXCEPT !.pc = "raised", !.err = calls[1].err ]
    /\ calls' = Settled
    /\ UNCHANGED <<options, now, credentials, probe, walletAddress, privateKey, data, result>>

\* getAccessToken () returned: the method runs up to its await of the
\* endpoint; a call of signTradeRequest it makes is remembered in `result`,
\* and sign () sets the headers of the request
TradeSend(draw) ==
    /\ trade.pc = "awaitToken"
    /\ calls[1].pc = "returned"
    /\ \E out \in { AfterToken(Val(trade.args), trade.contractsConfig, draw) } :
           /\ trade' =
                 IF out.err # "none"
                 THEN [ trade EXCEPT !.pc = "raised", !.err = out.err ]
                 ELSE [ trade EXCEPT !.pc = "awaitResponse",
                                     !.uiPayload = out.uiPayload,
                                     !.signature = out.signature,
                                     !.endpoint = out.endpoint,
                                     !.body = out.body,
                                     !.authorization =
                                         sign(ApiOf(out.endpoint), NONE).Authorization ]
           /\ data' = out.uiPayload
           /\ result' =
                 IF out.signature # NONE
                 THEN << [ fn |-> "signTradeRequest", input |-> Val(out.uiPayload),
                           key |-> Val(privateKey), at |-> now, err |-> "none",
                           out |-> Val(out.signature) ] >>
                 ELSE result
    /\ calls' = Settled
    /\ UNCHANGED <<options, now, credentials, probe, walletAddress, privateKey>>

\* the endpoint answered, or the request failed
TradeResponse(ok) ==
    /\ trade.pc = "awaitResponse"
    /\ trade' = IF ok THEN [ trade EXCEPT !.pc = "returned" ]
                ELSE [ trade EXCEPT !.pc = "raised", !.err = "NetworkError" ]
    /\ calls' = Settled
    /\ UNCHANGED <<options, now, credentials, probe, walletAddress, privateKey, data, result>>

\* the clock advances while no call has just finished
TradeTick(t) ==
    /\ \A c \in Calls : ~Finished(c)
    /\ Tick(t)

NextTrade ==
    \/ \E args \in TradeArgs : TradeCall(args)
    \/ \E marginMode \in MarginModes : SetMarginMode(marginMode)
    \/ TradeTokenRaised
    \/ \E draw \in SaltDraws : TradeSend(draw)
    \/ \E ok \in BOOLEAN : TradeResponse(ok)
    \/ TradeTick(Time(240, 0))
    \/ \E body \in TradeBodies : AuthenticateResponse(1, body)
    \/ AuthenticateFailure(1)
    \/ \E body \in TradeBodies : RefreshResponse(1, body)
    \/ RefreshFailure(1)
    \/ GetAccessTokenReturn(1)

SpecTrade == InitTrade /\ [][NextTrade]_vars

\* ---- the token states of section 4.4, stated on elapsed time ----

\* time elapsed since the tokens were issued
Elapsed(opts, clock) == TimeSub(clock, Val(opts.tokenSetAtSeconds))

\* now >= issuedAt + 0.8 * accessLifetime, in fifths of a second
RenewalDue(opts, clock) ==
    LET e == Elapsed(opts, clock)
        lifetime == IF opts.accessTokenValidForSeconds = NONE THEN 300
                    ELSE Val(opts.accessTokenValidForSeconds)
    IN  5 * e[1] + (e[2] \div 200) >= 4 * lifetime

\* refresh token present and now < issuedAt + refreshLifetime - 60
RefreshUsable(opts, clock) ==
    /\ opts.refreshToken # NONE
    /\ LET e == Elapsed(opts, clock)
           lifetime == IF opts.refreshTokenValidForSeconds = NONE THEN 2592000
                       ELSE Val(opts.refreshTokenValidForSeconds)
       IN  e[1] < lifetime - 60

AwaitingRenewal(c) == calls[c].pc \in { "awaitAuth", "awaitRefresh" }

\* in this step a caller invokes getAccessToken as call c
BeginsGetAccessToken(c) ==
    /\ ~Active(c)
    /\ calls'[c].pc # "idle"
    /\ calls'[c].op = "getAccessToken"
    /\ vars' # vars

\* a pending call makes no further authenticate () / refreshAccessToken () invocation
NoFurtherRenewal(c) ==
    Active(c) => /\ calls'[c].nAuth = calls[c].nAuth
                 /\ calls'[c].nRefresh = calls[c].nRefresh
                 /\ calls'[c].pc # "awaitRefresh" \/ calls[c].pc = "awaitRefresh"
                 /\ calls'[c].pc # "awaitAuth" \/ calls[c].pc = "awaitAuth"

\* ---- C1 ----
\* C1: at most one renewal in flight: in no reachable state do two
\* getAccessToken calls each have an authenticate or refresh request
\* outstanding (a second caller waits for the renewal in flight instead).
C1_AtMostOneRenewalInFlight ==
    Cardinality({ c \in Calls : calls[c].op = "getAccessToken" /\ AwaitingRenewal(c) }) <= 1

\* ---- C2 ----
\* C2: refresh-to-authenticate fallback: a getAccessToken call whose refresh
\* request failed (transport failure or response without access token) has gone
\* on to one full authentication; it never ends by raising the refresh failure
\* without having invoked authenticate.
C2_RefreshFallsBackToAuthenticate ==
    \A c \in Calls :
        ( /\ calls[c].op = "getAccessToken"
          /\ calls[c].entry = "refresh"
          /\ calls[c].failed \in { "transport", "noAccessToken" } )
        => calls[c].nAuth = 1

\* ---- C3 ----
\* C3: a getAccessToken call that starts with no access token stored invokes
\* authenticate once and refreshAccessToken never (it sends a login request when
\* the credentials are configured, and never a refresh request); when its login
\* succeeds it has stored the response's access token and, unless another call
\* stored tokens in between, returns that newly stored token.
C3_Begin ==
    \A c \in Calls :
        /\ ( BeginsGetAccessToken(c) /\ options.accessToken = NONE )
           => /\ calls'[c].entry = "absent"
              /\ calls'[c].nAuth = 1
              /\ calls'[c].nRefresh = 0
              /\ credentials => calls'[c].pc = "awaitAuth"
        /\ calls[c].entry = "absent" => NoFurtherRenewal(c)

C3_Returned ==
    \A c \in Calls :
        ( calls[c].entry = "absent" /\ calls[c].pc = "returned" )
        => /\ calls[c].nAuth = 1
           /\ calls[c].nRefresh = 0
           /\ IsDefined(calls[c].renewed)
           /\ ~calls[c].overwritten
              => /\ calls[c].ret = calls[c].renewed
                 /\ options.accessToken = calls[c].renewed

C3_AbsentAuthenticatesOnce == [][C3_Begin]_vars /\ [](C3_Returned)

C3_Witness ==
    \E c \in Calls :
        /\ calls[c].entry = "absent"
        /\ calls[c].pc = "returned"
        /\ ~calls[c].overwritten
        /\ IsDefined(calls[c].ret)

\* ---- C4 ----
\* C4: a getAccessToken call that starts with an access token stored, renewal
\* due and the refresh token usable invokes refreshAccessToken once, sends one
\* refresh request and never invokes authenticate; when the refresh succeeds
\* it returns the access token of the refresh response (unless another call
\* stored tokens in between).
C4_Begin ==
    \A c \in Calls :
        /\ ( /\ BeginsGetAccessToken(c)
             /\ options.accessToken # NONE
             /\ RenewalDue(options, now)
             /\ RefreshUsable(options, now) )
           => /\ calls'[c].entry = "refresh"
              /\ calls'[c].nRefresh = 1
              /\ calls'[c].nAuth = 0
              /\ calls'[c].pc = "awaitRefresh"
              /\ calls'[c].sentRefresh = options.refreshToken
        /\ calls[c].entry = "refresh" => NoFurtherRenewal(c)

C4_Returned ==
    \A c \in Calls :
        ( calls[c].entry = "refresh" /\ calls[c].pc = "returned" )
        => /\ calls[c].nRefresh = 1
           /\ calls[c].nAuth = 0
           /\ IsDefined(calls[c].renewed)
           /\ ~calls[c].overwritten
              => /\ calls[c].ret = calls[c].renewed
                 /\ options.accessToken = calls[c].renewed

C4_DueRefreshesOnce == [][C4_Begin]_vars /\ [](C4_Returned)

C4_Witness ==
    \E c \in Calls :
        /\ calls[c].entry = "refresh"
        /\ calls[c].pc = "returned"
        /\ ~calls[c].overwritten
        /\ IsDefined(calls[c].ret)

\* ---- C5 ----
\* C5: a getAccessToken call that starts with an access token stored and
\* renewal due, while the refresh token is absent or no longer usable, invokes
\* authenticate once (sending the login request) and neither invokes
\* refreshAccessToken nor sends a refresh request, up to its completion.
C5_Begin ==
    \A c \in Calls :
        /\ ( /\ BeginsGetAccessToken(c)
             /\ options.accessToken # NONE
             /\ RenewalDue(options, now)
             /\ ~RefreshUsable(options, now) )
           => /\ calls'[c].entry = "reauth"
              /\ calls'[c].nAuth = 1
              /\ calls'[c].nRefresh = 0
              /\ calls'[c].pc = "awaitAuth"
        /\ calls[c].entry = "reauth" => NoFurtherRenewal(c)

C5_DueWithoutRefreshAuthenticates == [][C5_Begin]_vars

\* a call sends a login request while a refresh token is stored that has
\* reached its lifetime minus 60 s
C5_Witness ==
    \E c \in Calls :
        /\ calls[c].op = "getAccessToken"
        /\ calls[c].entry = "reauth"
        /\ calls[c].pc = "awaitAuth"
        /\ calls[c].nAuth = 1
        /\ calls[c].nRefresh = 0
        /\ IsDefined(options.refreshToken)
        /\ RenewalDue(options, now)
        /\ ~RefreshUsable(options, now)

\* ---- C6 ----
\* C6: cache hit: a getAccessToken call that starts with an access token stored
\* and renewal not yet due returns in the same step the stored access token,
\* invokes neither authenticate nor refreshAccessToken, and leaves all five
\* token fields unchanged.
C6_Begin ==
    \A c \in Calls :
        ( /\ BeginsGetAccessToken(c)
          /\ options.accessToken # NONE
          /\ ~RenewalDue(options, now) )
        => /\ calls'[c].pc = "returned"
           /\ calls'[c].ret = options.accessToken
           /\ calls'[c].nAuth = 0
           /\ calls'[c].nRefresh = 0
           /\ options' = options

C6_CacheHit == [][C6_Begin]_vars

C6_Witness ==
    \E c \in Calls :
        /\ calls[c].entry = "cached"
        /\ calls[c].pc = "returned"
        /\ IsDefined(calls[c].ret)
        /\ calls[c].ret = options.accessToken


\* ---- C7 ----
\* C7: isAccessTokenExpired () is true exactly when the access token is absent,
\* or tokenSetAtSeconds is absent, or now >= issuedAt + 0.8 * accessLifetime
\* (the lifetime defaulting to 300 s): with lifetime 300 it is false for every
\* elapsed time below 240 s and true from exactly 240 s on, and it is true on a
\* freshly constructed client.
C7_AccessTokenExpiredExactly ==
    IsDefined(probe) =>
        /\ Val(probe).expired =
              ( \/ options.accessToken = NONE
                \/ options.tokenSetAtSeconds = NONE
                \/ RenewalDue(options, now) )
        /\ options = EmptyOptions => Val(probe).expired
        /\ ( /\ options.accessToken # NONE
             /\ options.tokenSetAtSeconds # NONE
             /\ options.accessTokenValidForSeconds \in { NONE, Some(300) } )
           => ( Val(probe).expired = TimeGE(Elapsed(options, now), Time(240, 0)) )

\* the predicate was called at exactly 240 s, and just below, with lifetime 300
C7_Witness ==
    /\ IsDefined(probe)
    /\ Val(probe).expired
    /\ options.accessToken # NONE
    /\ options.tokenSetAtSeconds # NONE
    /\ options.accessTokenValidForSeconds = Some(300)
    /\ Elapsed(options, now) = Time(240, 0)

\* ---- C8 ----
\* C8: isRefreshTokenValid () is true exactly when the refresh token is present,
\* tokenSetAtSeconds is present and now < issuedAt + refreshLifetime - 60 (the
\* lifetime defaulting to 2,592,000 s), whatever the access token fields hold;
\* it is false on a freshly constructed client and for every elapsed time
\* >= refreshLifetime - 60.
C8_RefreshTokenValidExactly ==
    IsDefined(probe) =>
        /\ Val(probe).refreshValid =
              ( /\ options.tokenSetAtSeconds # NONE
                /\ RefreshUsable(options, now) )
        /\ options = EmptyOptions => ~Val(probe).refreshValid
        /\ ( /\ options.tokenSetAtSeconds # NONE
             /\ options.refreshTokenValidForSeconds \in { NONE, Some(2592000) }
             /\ TimeGE(Elapsed(options, now), Time(2591940, 0)) )
           => ~Val(probe).refreshValid

\* the predicate was called one millisecond before the buffer starts, with no
\* access token stored
C8_Witness ==
    /\ IsDefined(probe)
    /\ Val(probe).refreshValid
    /\ options.accessToken = NONE
    /\ options.refreshTokenValidForSeconds = NONE
    /\ Elapsed(options, now) = Time(2591939, 999)

\* ---- C9 ----
\* C9: when the response to a login or refresh request carries no access token,
\* the call raises AuthenticationError and the five token fields keep the values
\* they had, whatever else the response carried.
C9_Step ==
    \A c \in Calls :
        ( calls[c].failed # "noAccessToken" /\ calls'[c].failed = "noAccessToken" )
        => /\ AwaitingRenewal(c)
           /\ calls'[c].pc = "raised"
           /\ calls'[c].err = "AuthenticationError"
           /\ Val(calls'[c].response).accessToken = NONE
           /\ options' = options

C9_NoAccessTokenRaisesAndKeepsState == [][C9_Step]_vars

\* a response without access token but with a refresh token and lifetimes
\* arrived while other tokens were stored
C9_Witness ==
    \E c \in Calls :
        /\ calls[c].failed = "noAccessToken"
        /\ IsDefined(Val(calls[c].response).refreshToken)
        /\ IsDefined(Val(calls[c].response).accessTokenValidForSeconds)
        /\ IsDefined(options.accessToken)
        /\ options.refreshToken # Val(calls[c].response).refreshToken
        /\ options.accessTokenValidForSeconds # Val(calls[c].response).accessTokenValidForSeconds

\* ---- C10 ----
\* C10: hold old until new confirmed: once an access token is stored, every
\* later state has one; the token fields change only in the step in which a
\* login or refresh response carrying an access token is stored (then they hold
\* that response's token), so starting a renewal, waiting for it or failing it
\* leaves the previous tokens in place.
C10_Step ==
    /\ IsDefined(options.accessToken) => IsDefined(options'.accessToken)
    /\ options' # options
       => \E c \in Calls :
            /\ AwaitingRenewal(c)
            /\ calls'[c].pc \in { "resume", "returned" }
            /\ IsDefined(calls'[c].renewed)
            /\ options'.accessToken = calls'[c].renewed

C10_HoldOldUntilNewConfirmed == [][C10_Step]_vars

\* a renewal failed, another is still in flight, and the old token is still there
C10_Witness ==
    /\ IsDefined(options.accessToken)
    /\ \E c \in Calls : calls[c].pc = "raised" /\ calls[c].failed \in { "transport", "noAccessToken" }
    /\ \E c \in Calls : AwaitingRenewal(c)

\* ---- C11 ----
\* the lifetimes one response leaves in the options: its own, or the defaults
StoredLifetimes ==
    { <<Some(300), Some(2592000)>>, <<Some(200), Some(300)>> }

\* the five fields as one successful response leaves them
FromOneCompletion(opts) ==
    /\ IsDefined(opts.accessToken)
    /\ opts.refreshToken \in { NONE, opts.accessToken }
    /\ IsDefined(opts.tokenSetAtSeconds)
    /\ <<opts.accessTokenValidForSeconds, opts.refreshTokenValidForSeconds>> \in StoredLifetimes

\* a step that changes a token field is the completion of one call c, and every
\* field it leaves is of that completion: the token is the one c received and
\* the issue time is the one c took (authenticate: when it signed the login;
\* refreshAccessToken: when the response arrived)
C11_Step ==
    options' # options
    => \E c \in Calls :
         /\ AwaitingRenewal(c)
         /\ ~AwaitingRenewal(c)'
         /\ options'.accessToken = calls'[c].renewed
         /\ options'.tokenSetAtSeconds =
               IF calls[c].pc = "awaitAuth" THEN calls[c].signedAt ELSE Some(now)
         /\ FromOneCompletion(options')

\* C11: under any interleaving of overlapping getAccessToken / authenticate /
\* refreshAccessToken calls, the stored access token, refresh token, issue time
\* and both lifetimes all come from one and the same successful completion; no
\* state pairs the token of one call with fields written by another.
C11_TokenStateFromOneCompletion ==
    [][C11_Step]_vars /\ [](options = EmptyOptions \/ FromOneCompletion(options))

\* two renewals overlapped: a call stored its tokens and, before it returned,
\* another call stored different ones
C11_Witness ==
    \E c \in Calls :
        /\ calls[c].pc = "resume"
        /\ calls[c].overwritten
        /\ options.accessToken # calls[c].renewed
        /\ options.refreshToken # NONE

\* ---- C12 ----
\* the login request of call c ends in this step without a token for c
LoginFails(c) ==
    /\ calls[c].pc = "awaitAuth"
    /\ calls'[c] # calls[c]
    /\ calls'[c].renewed = NONE

C12_Step ==
    \A c \in Calls :
        ( calls[c].op = "getAccessToken" /\ LoginFails(c) )
        => /\ calls'[c].pc = "raised"
           /\ calls'[c].err # "none"
           /\ calls'[c].nAuth = calls[c].nAuth
           /\ calls'[c].nRefresh = calls[c].nRefresh
           /\ options' = options

\* C12: no local retry: one getAccessToken call makes at most one login and at
\* most one refresh request; when its login request fails the call raises, sends
\* nothing further, and the token fields are unchanged.
C12_NoLocalRetry ==
    /\ [][C12_Step]_vars
    /\ [](\A c \in Calls : calls[c].op = "getAccessToken"
                            => calls[c].nAuth <= 1 /\ calls[c].nRefresh <= 1)

\* an expired token without usable refresh token was to be replaced by a login,
\* the login failed in the transport, and the old tokens are still stored
C12_Witness ==
    \E c \in Calls :
        /\ calls[c].op = "getAccessToken"
        /\ calls[c].entry = "reauth"
        /\ calls[c].pc = "raised"
        /\ calls[c].failed = "transport"
        /\ calls[c].nAuth = 1
        /\ IsDefined(options.accessToken)

\* ---- C13 ----
\* C13: every normal return of getAccessToken, on the cached, refresh and login
\* paths and with overlapping callers, yields a present access token, the one
\* stored at the moment of return; a call that obtained none raises.
C13_ReturnsStoredToken ==
    \A c \in Calls :
        ( calls[c].op = "getAccessToken" /\ Finished(c) )
        => IF calls[c].pc = "returned"
           THEN /\ IsDefined(calls[c].ret)
                /\ calls[c].ret = options.accessToken
           ELSE /\ calls[c].ret = NONE
                /\ calls[c].err # "none"

\* a call returned the token another call stored while it was resuming
C13_Witness ==
    \E c \in Calls :
        /\ calls[c].op = "getAccessToken"
        /\ calls[c].pc = "returned"
        /\ calls[c].overwritten
        /\ calls[c].ret # calls[c].renewed
        /\ calls[c].ret = options.accessToken

\* ---- C20 ----
\* the first k bytes of a prefix read as an unsigned LEB128 number
RECURSIVE Uleb128Value(_, _)
Uleb128Value(bytes, k) ==
    IF k = 0 THEN 0
    ELSE (bytes[1] % 128) + 128 * Uleb128Value(Tail(bytes), k - 1)

\* the number of bytes up to and including the first one with the high bit clear
PrefixLength(bytes) ==
    CHOOSE k \in 1 .. Len(bytes) : bytes[k] < 128 /\ \A i \in 1 .. k - 1 : bytes[i] >= 128

\* C20: bcsSerializeBytes returns the unsigned LEB128 encoding of the length n
\* followed by the n bytes unchanged: every prefix byte but the last has the
\* high bit set, the last has it clear, the prefix reads back as n, it is one
\* byte for n < 128 and two for 128 <= n < 16384 (0 -> 00; 3 -> 03;
\* 128 -> 80 01; 300 -> AC 02), and the total length is prefix length + n.
C20_BcsIsUleb128ThenBytes ==
    result # <<>> =>
        LET in == Val(data)
            out == result[1]
            n == Len(in)
            k == PrefixLength(out)
        IN  /\ \E j \in 1 .. Len(out) : out[j] < 128
            /\ \A i \in 1 .. Len(out) : out[i] \in 0 .. 255
            /\ Uleb128Value(out, k) = n
            /\ Len(out) = k + n
            /\ SubSeq(out, k + 1, Len(out)) = in
            /\ n < 128 => k = 1
            /\ (128 <= n /\ n < 16384) => k = 2
            /\ n = 0 => out = <<0>>
            /\ n = 3 => out[1] = 3
            /\ n = 128 => SubSeq(out, 1, 2) = <<128, 1>>
            /\ n = 300 => SubSeq(out, 1, 2) = <<172, 2>>

\* a 300 byte array was serialised: prefix AC 02, 302 bytes in all
C20_Witness ==
    /\ result # <<>>
    /\ Len(Val(data)) = 300
    /\ Len(result[1]) = 302
    /\ result[1][1] = 172 /\ result[1][2] = 2

\* ---- C16 ----
\* the 32 bytes of the tests' private key and of the other account's key
TestKeyBytes ==
     << 52, 39, 209, 157, 207, 87, 129, 240,
        135, 76, 54, 199, 138, 236, 34, 192,
        58, 205, 164, 53, 214, 158, 252, 191,
        36, 158, 136, 33, 121, 53, 103, 161 >>

OtherKeyBytes ==
     << 157, 97, 177, 157, 239, 253, 90, 96,
        186, 132, 74, 244, 146, 236, 44, 196,
        68, 73, 197, 105, 123, 50, 105, 25,
        112, 59, 172, 3, 28, 174, 127, 96 >>

\* the key bytes a private key string stands for
KeyBytesOf(privateKeyHex) ==
    IF privateKeyHex = OTHER_PRIVATE_KEY THEN OtherKeyBytes ELSE TestKeyBytes

\* the signing calls remembered in the state
SigningCalls == { result[i] : i \in 1 .. Len(result) }

\* block i of the array starts at byte `from` (counted from 0) and ends at `to`
BlockSpans(blocks, i, from, to) ==
    /\ byteLength(SubSeq(blocks, 1, i - 1)) = from
    /\ blocks[i].bytes = to - from + 1

\* C16: for every message length (0 and >= 128 included) and every valid key,
\* the envelope of suiSignPersonalMessage, base64 decoded, is exactly 97 bytes:
\* byte 0 is 0x00, bytes 1-64 are the signature and bytes 65-96 the public key
\* of the signing private key.
C16_EnvelopeIs97Bytes ==
    \A e \in SigningCalls :
        LET envelope == base64ToBinary(e.out)
        IN  /\ byteLength(envelope) = 97
            /\ \E i \in 1 .. Len(envelope) :
                 BlockSpans(envelope, i, 0, 0) /\ envelope[i] = Raw(<<0>>)
            /\ \E i \in 1 .. Len(envelope) :
                 BlockSpans(envelope, i, 1, 64) /\ envelope[i].of[1] = "ed25519.sign"
            /\ \E i \in 1 .. Len(envelope) :
                 /\ BlockSpans(envelope, i, 65, 96)
                 /\ envelope[i] = ed25519_getPublicKey(KeyBytesOf(e.key))

\* an empty message and a 300 byte message were signed, one after the other
C16_Witness ==
    /\ Len(result) = 2
    /\ result[1].fn = "suiSignPersonalMessage" /\ Len(result[1].input) = 0
    /\ result[2].fn = "suiSignPersonalMessage" /\ Len(result[2].input) = 300
    /\ byteLength(base64ToBinary(result[1].out)) = 97
    /\ byteLength(base64ToBinary(result[2].out)) = 97

Uleb128Of(n) == IF n < 128 THEN <<n>> ELSE <<128 + (n % 128), n \div 128>>

\* the digest a verifier rebuilds from the message: BCS, intent bytes, Blake2b
RebuiltDigest(message) ==
    blake2b(<<3, 0, 0>> \o Uleb128Of(Len(message)) \o message, 32)

\* C19: the 64 byte signature in bytes 1-64 of suiSignPersonalMessage (m, k)
\* verifies under Ed25519, with the public key in bytes 65-96, against the
\* digest rebuilt in this order: BCS-encode m, prepend [3, 0, 0], Blake2b-256.
C19_SignatureVerifies ==
    \A e \in SigningCalls :
        e.fn = "suiSignPersonalMessage" =>
            LET envelope == base64ToBinary(e.out)
            IN  \E i, j \in 1 .. Len(envelope) :
                  /\ BlockSpans(envelope, i, 1, 64)
                  /\ BlockSpans(envelope, j, 65, 96)
                  /\ ed25519_verify(envelope[i], RebuiltDigest(e.input), envelope[j])

\* a 300 byte message (two prefix bytes) was signed, and a message under the
\* key of another account
C19_Witness ==
    /\ Len(result) = 2
    /\ result[1].fn = "suiSignPersonalMessage" /\ Len(result[1].input) = 300
    /\ result[2].fn = "suiSignPersonalMessage" /\ result[2].key = OTHER_PRIVATE_KEY

\* ---- C15 ----
\* every value of the payload is a string or a boolean
WellTyped(payload) ==
    \A i \in 1 .. Len(payload) : payload[i].value.type \in { "string", "boolean" }

\* C15: encoding a payload in which some value is not a string or a boolean
\* (an absent value, a raw number, a nested object) fails with
\* UnsupportedFieldType and yields no signature.
C15_UnsupportedFieldTypeRaised ==
    \A e \in SigningCalls :
        ( e.fn = "signTradeRequest" /\ ~WellTyped(e.input) )
        => e.err = "UnsupportedFieldType"

\* ---- C18 ----
\* the bytes that are signed for a payload
CanonicalBytes(payload) == utf8ToBytes(JSON_stringify(payload))

C14_MutationsRouteThroughSignTradeRequest ==
    ( trade.body # NONE /\ Val(trade.args).op \in WriteMethods ) =>
        /\ result # <<>>
        /\ result[1].fn = "signTradeRequest"
        /\ trade.uiPayload = Some(result[1].input)
        /\ Val(trade.body).signature = Some(result[1].out)

\* ---- C21 ----
\* the number of digits after the point
FractionDigits(v) ==
    LET dots == { i \in 1 .. Len(v) : v[i] = 46 }
    IN  IF dots = {} THEN 0 ELSE Len(v) - (CHOOSE i \in dots : TRUE)

\* a decimal string without redundant zeros: no zero before the first digit of
\* the integer part, no zero at the end of the fraction, no empty part
IsCanonical(v) ==
    LET whole == Len(v) - FractionDigits(v) - (IF FractionDigits(v) > 0 THEN 1 ELSE 0)
    IN  /\ whole >= 1
        /\ v[Len(v)] # 46
        /\ whole > 1 => v[1] # 48
        /\ FractionDigits(v) > 0 => v[Len(v)] # 48

\* the number a decimal string denotes: <<m, k>> for m * 10^(-k), m the digits
\* of a natural number not ending in 0 (no digits for zero)
ValueOf(v) ==
    LET digits == SelectSeq(v, LAMBDA c : c # 46)
        nonzero == { i \in 1 .. Len(digits) : digits[i] # 48 }
        first == CHOOSE i \in nonzero : \A j \in nonzero : i <= j
        last == CHOOSE i \in nonzero : \A j \in nonzero : j <= i
    IN  IF nonzero = {} THEN << <<>>, 0 >>
        ELSE << SubSeq(digits, first, last), FractionDigits(v) - (Len(digits) - last) >>

\* two calls in a row, one of each function
E9RoundTrips ==
    { i \in 1 .. Len(result) - 1 :
        /\ result[i].fn # result[i + 1].fn
        /\ result[i].input # NONE
        /\ FractionDigits(Val(result[i].input)) <= 9 }

\* C21 as written: on every decimal string v with at most 9 digits after the
\* point, parseE9 (toE9 (v)) and toE9 (parseE9 (v)) return exactly v.
C21_RoundTripExact ==
    \A i \in E9RoundTrips : result[i + 1].out = result[i].input

\* C21 amended: on every decimal string v with at most 9 digits after the
\* point, both round trips return the canonical string of the same number,
\* which is v itself when v has no redundant zeros.
C21_RoundTripCanonical ==
    \A i \in E9RoundTrips :
        /\ IsCanonical(Val(result[i + 1].out))
        /\ ValueOf(Val(result[i + 1].out)) = ValueOf(Val(result[i].input))
        /\ IsCanonical(Val(result[i].input)) => result[i + 1].out = result[i].input

\* '99999999.999999999' went through toE9 and back, '0.5' through parseE9 and
\* back is covered by the same states with the functions exchanged
C21_Witness ==
    /\ Len(result) = 2
    /\ data = Some(Some(<< 57, 57, 57, 57, 57, 57, 57, 57, 46, 57, 57, 57, 57, 57, 57, 57, 57, 57 >>))
    /\ result[1].fn = "toE9" /\ result[2].fn = "parseE9"
    /\ result[2].out = Some(<< 57, 57, 57, 57, 57, 57, 57, 57, 46, 57, 57, 57, 57, 57, 57, 57, 57, 57 >>)

\* ---- C22 ----
\* the value moved by k decimal places to the left
ShiftValue(value, k) == IF value[1] = <<>> THEN value ELSE << value[1], value[2] + k >>

\* the calls made on a string
E9Calls == { i \in 1 .. Len(result) : result[i].input # NONE }

\* C22: toE9 (v) denotes v * 10^9 and parseE9 (v) denotes v / 10^9 exactly,
\* whatever the number of digits after the point of v; toE9 ('1') is
\* '1000000000', toE9 ('0.5') is '500000000', parseE9 of these gives '1' and
\* '0.5' back, and '0' gives '0' both ways.
C22_ExactShift ==
    \A i \in E9Calls :
        LET e == result[i]
            v == Val(e.input)
        IN  /\ e.out # NONE
            /\ ValueOf(Val(e.out)) = ShiftValue(ValueOf(v), IF e.fn = "toE9" THEN 0 - 9 ELSE 9)
            /\ (e.fn = "toE9" /\ v = << 49 >>) => Val(e.out) = << 49, 48, 48, 48, 48, 48, 48, 48, 48, 48 >>
            /\ (e.fn = "toE9" /\ v = << 48, 46, 53 >>) => Val(e.out) = << 53, 48, 48, 48, 48, 48, 48, 48, 48 >>
            /\ (e.fn = "parseE9" /\ v = << 49, 48, 48, 48, 48, 48, 48, 48, 48, 48 >>) => Val(e.out) = << 49 >>
            /\ (e.fn = "parseE9" /\ v = << 53, 48, 48, 48, 48, 48, 48, 48, 48 >>) => Val(e.out) = << 48, 46, 53 >>
            /\ v = << 48 >> => Val(e.out) = << 48 >>

\* toE9 was given ten digits after the point and kept the tenth
C22_Witness ==
    /\ Len(result) >= 1
    /\ result[1].fn = "toE9"
    /\ result[1].input = Some(<< 48, 46, 49, 50, 51, 52, 53, 54, 55, 56, 57, 49 >>)
    /\ result[1].out = Some(<< 49, 50, 51, 52, 53, 54, 55, 56, 57, 46, 49 >>)

\* ---- C23 ----
\* C23: toE9 and parseE9 return undefined for undefined without throwing, and
\* return a string for a string.
C23_FailClosed ==
    \A i \in 1 .. Len(result) :
        /\ result[i].err = "none"
        /\ result[i].input = NONE <=> result[i].out = NONE

\* both functions were given undefined
C23_Witness ==
    /\ data = Some(NONE)
    /\ Len(result) = 2
    /\ result[1].fn = "toE9" /\ result[2].fn = "parseE9"
    /\ result[2].out = NONE

\* ---- C24 ----
\* one line of the Pretty JSON rendering: two spaces, the quoted key, a colon
\* and a space, then the value, a string quoted and a boolean bare
PrettyLine(p) ==
    <<32, 32>> \o QuoteJSONString(p.key) \o <<58, 32>>
    \o ( IF p.value.type = "string" THEN QuoteJSONString(p.value.value)
         ELSE IF p.value.value THEN <<116, 114, 117, 101>>
         ELSE <<102, 97, 108, 115, 101>> )

\* the Pretty JSON rendering: the braces on lines of their own, the lines of
\* the properties between them in the order of the payload, separated by commas
PrettyJSON(payload) ==
    <<123, 10>>
    \o Join([ i \in 1 .. Len(payload) |->
                PrettyLine(payload[i]) \o ( IF i < Len(payload) THEN <<44, 10>> ELSE <<10>> ) ])
    \o <<125>>

\* C24: signTradeRequest (payload), payload of the declared types, returns
\* what suiSignPersonalMessage returns for the UTF-8 bytes of the Pretty JSON
\* rendering of payload under the private key of the client, whatever the
\* clock and the stored tokens are.
C24_SignTradeRequestIsComposition ==
    \A e \in SigningCalls :
        ( e.fn = "signTradeRequest" /\ WellTyped(e.input) )
        => /\ e.key = Val(privateKey)
           /\ e.out = suiSignPersonalMessage(utf8ToBytes(PrettyJSON(e.input)), Val(privateKey))

\* a payload holding a boolean and one holding a string with characters to
\* escape were signed, the second after the login stored its tokens
C24_Witness ==
    /\ Len(result) = 2
    /\ result[2].fn = "signTradeRequest" /\ result[2].input = marginPayload(TRUE)
    /\ result[1].fn = "signTradeRequest"
    /\ result[1].input = withdrawPayload(String(str.quoted), String(str.n100000000000),
                                         String(str.n111))
    /\ options.accessToken # NONE

\* ---- C25 ----
\* the token state a response leaves when it is stored whole with the issue
\* time given
StoredFrom(body, issuedAt) ==
    [ accessToken |-> body.accessToken,
      refreshToken |-> body.refreshToken,
      tokenSetAtSeconds |-> issuedAt,
      accessTokenValidForSeconds |->
          IF body.accessTokenValidForSeconds = NONE THEN Some(300)
          ELSE body.accessTokenValidForSeconds,
      refreshTokenValidForSeconds |->
          IF body.refreshTokenValidForSeconds = NONE THEN Some(2592000)
          ELSE body.refreshTokenValidForSeconds ]

\* the step in which the refresh request of call c is answered with success
RefreshSucceeds(c) ==
    /\ calls[c].pc = "awaitRefresh"
    /\ calls'[c].pc \in { "resume", "returned" }

C25_Step ==
    \A c \in Calls :
        RefreshSucceeds(c)
        => \E body \in ResponseBodies :
             /\ body.accessToken # NONE
             /\ body.accessToken = calls'[c].renewed
             /\ options' = StoredFrom(body, Some(now))

\* C25: a refresh answered with an access token replaces the whole token
\* state by the response: both tokens are the response's (the refresh token
\* absent when the response has none, the old one not kept), the issue time is
\* the time of the answer, the lifetimes are the response's or 300 / 2,592,000.
C25_RefreshOverwrites == [][C25_Step]_vars

\* a refresh was answered without a refresh token: the one that was sent is
\* gone from the token state
C25_Witness ==
    \E c \in Calls :
        /\ calls[c].pc \in { "resume", "returned" }
        /\ calls[c].nRefresh = 1 /\ calls[c].nAuth = 0
        /\ ~calls[c].overwritten
        /\ options.accessToken = calls[c].renewed
        /\ options.refreshToken = NONE
        /\ options.tokenSetAtSeconds = Some(now)

\* ---- C26 ----
\* the step in which the login request of call c is answered with success
AuthenticateSucceeds(c) ==
    /\ calls[c].pc = "awaitAuth"
    /\ calls'[c].pc \in { "resume", "returned" }

C26_Step ==
    \A c \in Calls :
        /\ ( calls[c].pc # "awaitAuth" /\ calls'[c].pc = "awaitAuth" )
           => calls'[c].signedAt = Some(now)
        /\ ( calls[c].pc = "awaitAuth" /\ calls'[c].pc = "awaitAuth" )
           => calls'[c].signedAt = calls[c].signedAt
        /\ AuthenticateSucceeds(c)
           => \E body \in ResponseBodies :
                /\ body.accessToken # NONE
                /\ body.accessToken = calls'[c].renewed
                /\ options' = StoredFrom(body, calls[c].signedAt)

\* C26: a login answered with an access token stores the response's two
\* tokens, the lifetimes of the response or 300 / 2,592,000, and as issue time
\* the clock reading taken when the login payload was signed, before the
\* request was sent, not the time of the answer.
C26_AuthenticateStores == [][C26_Step]_vars

\* a login was answered after the clock had advanced, without lifetimes: the
\* issue time stored is earlier than the time of the answer
C26_Witness ==
    \E c \in Calls :
        /\ calls[c].pc \in { "resume", "returned" }
        /\ calls[c].nAuth = 1 /\ calls[c].nRefresh = 0
        /\ ~calls[c].overwritten
        /\ options.accessToken = calls[c].renewed
        /\ options.tokenSetAtSeconds # Some(now)
        /\ options.accessTokenValidForSeconds = Some(300)
        /\ options.refreshTokenValidForSeconds = Some(2592000)

\* ---- C27 ----
\* the private methods
PrivateMethods ==
    WriteMethods \cup { "fetchBalance", "fetchPositions", "fetchMyTrades", "fetchOpenOrders" }

\* the step in which a method sends its request: getAccessToken () of this
\* invocation has returned, and the header holds the token stored now
C27_Step ==
    ( trade.body = NONE /\ trade'.body # NONE )
    => /\ Val(trade.args).op \in PrivateMethods
       /\ trade'.args = trade.args
       /\ trade.pc = "awaitToken"
       /\ calls[1].op = "getAccessToken" /\ calls[1].pc = "returned"
       /\ ApiOf(trade'.endpoint) \in { "account", "trade" }
       /\ options.accessToken # NONE
       /\ trade'.authorization =
             Some([ scheme |-> "Bearer", token |-> Val(options.accessToken) ])

\* the headers of a request to the exchange or auth group, built now
C27_NoBearerElsewhere ==
    \A api \in { "exchange", "auth" } :
        \A payloadSignature \in { NONE, Some(suiSignPersonalMessage(<<>>, TEST_PRIVATE_KEY)) } :
            sign(api, payloadSignature).Authorization = NONE

\* C27: a request of a private method (fetchBalance, fetchPositions,
\* fetchMyTrades, fetchOpenOrders, createOrder, cancelOrder, cancelOrders,
\* setLeverage, adjustMargin, withdraw) goes to an account or trade endpoint
\* only after the getAccessToken () of that invocation returned, with the
\* header Authorization: Bearer t, t the access token stored when the request
\* is built; a request to the exchange or auth group has no such header.
C27_BearerOnPrivateRequests ==
    [][C27_Step]_vars /\ [](C27_NoBearerElsewhere)

\* a read-only request went out with a token obtained by a refresh, and a
\* request to the auth group built in this state has none
C27_Witness ==
    /\ trade.pc = "awaitResponse"
    /\ Val(trade.args).op = "fetchMyTrades"
    /\ trade.authorization = Some([ scheme |-> "Bearer", token |-> 1 ])
    /\ options.tokenSetAtSeconds = Some(Time(240, 0))
    /\ sign("auth", NONE).Authorization = NONE

\* ---- C28 ----
\* the value of the property `key` of a payload
PropertyOf(payload, key) ==
    payload[CHOOSE i \in 1 .. Len(payload) : payload[i].key = key].value

\* an order request has been sent
OrderSent ==
    /\ trade.body # NONE
    /\ Val(trade.args).op = "createOrder"

\* C28: the payload createOrder signed and the signedFields it sent agree:
\* price, quantity, leverage, side, salt, market, account and ids are
\* priceE9, quantityE9, leverageE9, side, salt, symbol, accountAddress and
\* idsId; positionType is ISOLATED exactly when isIsolated is true; signedAt is
\* signedAtMillis in decimal digits and expiration is expiresAtMillis, which is
\* signedAtMillis + 86,400,000.
C28_SignedEqualsSent ==
    OrderSent =>
        LET signed == Val(trade.uiPayload)
            sent == Val(trade.body).signedFields
        IN  /\ PropertyOf(signed, str.price) = StringValue(sent.priceE9)
            /\ PropertyOf(signed, str.quantity) = StringValue(sent.quantityE9)
            /\ PropertyOf(signed, str.leverage) = StringValue(sent.leverageE9)
            /\ PropertyOf(signed, str.side) = String(sent.side)
            /\ PropertyOf(signed, str.salt) = String(sent.salt)
            /\ PropertyOf(signed, str.market) = String(sent.symbol)
            /\ PropertyOf(signed, str.account) = StringValue(sent.accountAddress)
            /\ PropertyOf(signed, str.ids) = String(sent.idsId)
            /\ PropertyOf(signed, str.positionType) = String(str.ISOLATED)
               <=> sent.isIsolated
            /\ PropertyOf(signed, str.positionType) \in { String(str.ISOLATED), String(str.CROSS) }
            /\ PropertyOf(signed, str.signedAt) = String(NumberToString(sent.signedAtMillis))
            /\ PropertyOf(signed, str.expiration) = String(NumberToString(sent.expiresAtMillis))
            /\ sent.expiresAtMillis = sent.signedAtMillis + 86400000

\* an isolated market order was sent at 240 s with a salt above the clock
C28_Witness ==
    /\ OrderSent
    /\ trade.pc = "awaitResponse"
    /\ Val(trade.body).signedFields.isIsolated
    /\ Val(trade.body).signedFields.signedAtMillis = 240000
    /\ Val(trade.body).signedFields.salt = NumberToString(1239999)
    /\ Val(trade.body).signedFields.priceE9 = Some(<<48>>)

\* ---- C29 ----
\* C29: once setMarginMode has stored 'isolated' or 'cross', a createOrder
\* without the isIsolated parameter signs positionType ISOLATED and sends
\* isIsolated true for 'isolated', and signs CROSS and sends false for 'cross'.
C29_StoredMarginModeIsDefault ==
    ( OrderSent
      /\ Val(trade.args).params.isIsolated = NONE
      /\ trade.defaultMarginMode # NONE )
    => LET isolated == ( Val(trade.defaultMarginMode) = "isolated" )
       IN  /\ Val(trade.body).signedFields.isIsolated = isolated
           /\ PropertyOf(Val(trade.uiPayload), str.positionType)
                 = String(IF isolated THEN str.ISOLATED ELSE str.CROSS)

\* ---- C30 ----
\* C30: when every login and refresh request is answered or reported failed,
\* every pending getAccessToken / authenticate / refreshAccessToken call
\* completes, returning or raising, also when two calls overlap.
C30_EveryCallCompletes ==
    \A c \in Calls : Active(c) ~> Finished(c)

\* two getAccessToken calls overlapped and the first has returned while the
\* second is still to resume
C30_Witness ==
    /\ calls[1].op = "getAccessToken" /\ calls[1].pc = "returned"
    /\ calls[2].op = "getAccessToken" /\ calls[2].pc = "resume"
    /\ calls[1].nAuth = 1 /\ calls[2].nAuth = 1

====
